---- MODULE Spec2Model ----
(***************************************************************************)
(* Perspective-crop editor of pdf-temp-2: the EditorModal component (the   *)
(* OpenCV revision and the canvas revision), the corner detector and the   *)
(* warp of services/cvService.ts.                                          *)
(* Besides: the document board of App.tsx, callWithRetry of                *)
(* services/geminiService.ts, waitForCV of services/cvService.ts and the   *)
(* rectangle editor of components/EditorModal.tsx.                         *)
(*                                                                         *)
(* Numbers.  JavaScript numbers are modelled as fixed-point integers with  *)
(* Q units per pixel: a natural-space coordinate c is stored as c * Q, and *)
(* a quotient is rounded to the nearest unit.  Pointer coordinates         *)
(* (clientX, clientY) are whole pixels.  Indices are 0-based as in the source; the   *)
(* element i of a JavaScript array a is a[i + 1] here.                     *)
(***************************************************************************)
EXTENDS Integers, Sequences, FiniteSets, TLC

VARIABLES
    variant,        \* "cv": EditorModal with OpenCV detection; "canvas": EditorModal with the canvas warp
    layoutDiv,      \* the image element is laid out at natural size / layoutDiv (CSS max-w/max-h)
    docUrl,         \* App: the url the document list holds for the edited item
    isOpen,         \* App: editingItem # null (the modal is mounted)
    item,           \* the item prop: the image the modal was opened on
    history, currentIndex, isProcessing, activeTool, points,
    isDragging, dragInfo, brightness, contrast, rotation, zoom,
    isPanning, isSpacePressed,
    panStart, scrollStart, dragStartPos, initialPoints,   \* the refs
    scroll,         \* containerRef.current.scrollLeft / scrollTop
    loadedImg,      \* the image the <img> element has decoded (NoImage before the first onLoad)
    detections,     \* detectDocumentCorners calls in flight (the image each was started on)
    saveCalls,      \* the handleSave calls suspended at their await
    lastDetect,     \* how the last settled detectDocumentCorners call ended
    lastSave,       \* how the last settled handleSave call ended
    onUpdateCalls,  \* number of onUpdate calls made by the modal
    sessions, gestures, chords, edits, saves, commits,   \* counters that bound the exploration
    sortIn, sortOut,    \* the corner sort taken alone: its input and its results
    warpIn, warpOut,    \* the warp taken alone: its input and its outcome
    contoursIn, bestOut, \* the contour analysis taken alone: its input and its result
    documents,      \* App: the columns and their items
    batchHistory,   \* App: the snapshot of documents taken by the last batch (NULL when none)
    boardProcessing, \* App: isProcessing (a batch is running)
    tasks,          \* the tasks of the running handleBatchAutoCrop not yet settled
    rotations,      \* the handleRotateItem calls suspended at their await
    editingItem,    \* App: editingItem (<< >> when null, else one { docId, item })
    uploads, clicks, \* counters that bound the exploration of the board
    cwPc,           \* callWithRetry: where the call stands (idle, call, wait, returned, thrown)
    cwRetries, cwDelay,  \* callWithRetry: its parameters retries and delay
    cwAttempts,     \* callWithRetry: number of times operation() was invoked
    cwErrors,       \* callWithRetry: the errors caught so far
    cwWaits,        \* callWithRetry: the delays waited so far
    cwResult,       \* callWithRetry: what it settled with (the error it rejected with)
    cvState,        \* window.cv: absent, partial (defined, no imread or Mat yet) or ready
    wcPc,           \* waitForCV: where the call stands (idle, check, sleep, resolved, rejected)
    wcRetries,      \* waitForCV: its parameter retries
    wcChecks,       \* waitForCV: number of checks made
    wcWaited,       \* waitForCV: milliseconds of timers waited for
    rectOpen,       \* the rectangle editor (components/EditorModal.tsx) is mounted
    rectHistory, rectIndex,  \* rectangle editor: history and currentIndex
    rectProcessing, \* rectangle editor: isProcessing
    rectTool,       \* rectangle editor: activeTool
    crop,           \* rectangle editor: crop (<< >> when null, else one Rect)
    maskLines,      \* rectangle editor: maskLines.length
    aiCalls,        \* rectangle editor: the AI actions suspended at their await
    pushes          \* counter that bounds the pushes of one editing session

vars == << variant, layoutDiv, docUrl, isOpen, item, history, currentIndex,
           isProcessing, activeTool, points, isDragging, dragInfo, brightness,
           contrast, rotation, zoom, isPanning, isSpacePressed, panStart,
           scrollStart, dragStartPos, initialPoints, scroll, loadedImg,
           detections, saveCalls, lastDetect,
           lastSave, onUpdateCalls, sessions, gestures, chords, edits, saves, commits,
           sortIn, sortOut, warpIn, warpOut, contoursIn, bestOut,
           documents, batchHistory, boardProcessing, tasks, rotations, editingItem,
           uploads, clicks, cwPc, cwRetries, cwDelay, cwAttempts, cwErrors, cwWaits,
           cwResult, cvState, wcPc, wcRetries, wcChecks, wcWaited,
           rectOpen, rectHistory, rectIndex, rectProcessing, rectTool, crop, maskLines,
           aiCalls, pushes >>

NULL == << >>     \* null (a CornerSet is a sequence of 4 points)

(***************************************************************************)
(* Bounds of the exploration.                                              *)
(***************************************************************************)
MaxSessions == 1      \* times the editor is opened
MaxDocs == 2          \* columns of the board
MaxItems == 2         \* images uploaded to the board
MaxClicks == 5        \* pointer operations on the board
MaxRotations == 1     \* handleRotateItem calls in flight
MaxPushes == 2        \* pushes to the history of the rectangle editor in one session
MaxLines == 2         \* eraser strokes pending in the rectangle editor
MaxGestures == 1      \* presses of a mouse button while none is held
MaxChords == 1        \* presses of a further mouse button while one is held
MaxEdits == 1         \* zoom / slider / rotate clicks and space-bar presses
MaxSaves == 1         \* clicks on the confirm button
MaxCommits == 1       \* crops applied to the history
MaxContours == 2      \* contours findContours reports for one image
MaxScan == 3          \* contours of the contour analysis taken alone
GridMax == 3          \* the corner sort is tried on points of 0..GridMax x 0..GridMax
MaxScroll == 40       \* scrollable overflow of the canvas container, in pixels

(***************************************************************************)
(* Numbers.                                                                *)
(***************************************************************************)
Q == 10

Min(a, b) == IF a < b THEN a ELSE b
Max(a, b) == IF a > b THEN a ELSE b
Abs(a) == IF a < 0 THEN -a ELSE a

\* a / b rounded to the nearest integer, halves up (Math.round; b > 0)
RDiv(a, b) == (2 * a + b) \div (2 * b)

Pt(px, py) == [x |-> px, y |-> py]

\* the largest n with n * n <= a  (a >= 0)
RECURSIVE ISqrtBin(_, _, _)
ISqrtBin(a, lo, hi) ==
    IF lo >= hi THEN lo
    ELSE LET mid == (lo + hi + 1) \div 2
         IN IF mid * mid <= a THEN ISqrtBin(a, mid, hi) ELSE ISqrtBin(a, lo, mid - 1)
ISqrt(a) == ISqrtBin(a, 0, Min(a, 46340))

(***************************************************************************)
(* services/cvService.ts: the corner detector.                             *)
(* An image is [w, h, src]; a contour, as OpenCV reports it on the         *)
(* downscaled image, is [area, approx, rect]: contourArea, the vertices of *)
(* approxPolyDP and the four vertices of minAreaRect.                      *)
(***************************************************************************)
maxDim == 800
Retries == 100
RetryEveryMs == 100
DefaultRetries == 5
DefaultDelay == 5000
DelayUnit == 4

\* waitForCV(retries = 100): window.cv is found by the check number readyAt
\* (0 = the first check); the call resolves iff that check is made
WaitForCVResolves(readyAt) == readyAt <= Retries

\* scale = Math.min(maxDim / src.rows, maxDim / src.cols), kept as a fraction
ScaleNum == maxDim
ScaleDen(img) == Max(img.h, img.w)

\* dstSize = Size(Math.round(src.cols * scale), Math.round(src.rows * scale))
ResizedCols(img) == RDiv(img.w * ScaleNum, ScaleDen(img))
ResizedRows(img) == RDiv(img.h * ScaleNum, ScaleDen(img))

\* a threshold test that also skips a contour of exactly 15%
BelowThresholdExclusive(img, area) == area * 100 <= ResizedRows(img) * ResizedCols(img) * 15

\* if (area < (resized.rows * resized.cols * 0.15)) continue;
BelowThreshold(img, area) == area * 100 < ResizedRows(img) * ResizedCols(img) * 15

\* Math.round(v / scale)
Unscale(img, v) == RDiv(v * ScaleDen(img), ScaleNum)

UnscalePoints(img, vs) == [j \in 1..4 |-> Pt(Unscale(img, vs[j].x), Unscale(img, vs[j].y))]

\* a loop body whose fallback also records its area in maxArea
AnalyzeContourFallbackArea(img, st, cnt) ==
    IF BelowThreshold(img, cnt.area) THEN st
    ELSE IF Len(cnt.approx) = 4 /\ cnt.area > st.maxArea
         THEN [bestPoints |-> UnscalePoints(img, cnt.approx), maxArea |-> cnt.area]
    ELSE IF cnt.area > st.maxArea /\ st.bestPoints = NULL
         THEN [bestPoints |-> UnscalePoints(img, cnt.rect), maxArea |-> cnt.area]
    ELSE st

\* the body of the contour loop for one contour; st = [bestPoints, maxArea]
AnalyzeContour(img, st, cnt) ==
    IF BelowThreshold(img, cnt.area) THEN st
    ELSE IF Len(cnt.approx) = 4 /\ cnt.area > st.maxArea
         THEN [bestPoints |-> UnscalePoints(img, cnt.approx), maxArea |-> cnt.area]
    ELSE IF cnt.area > st.maxArea /\ st.bestPoints = NULL
         THEN [bestPoints |-> UnscalePoints(img, cnt.rect), maxArea |-> st.maxArea]
    ELSE st

RECURSIVE AnalyzeContours(_, _, _, _)
AnalyzeContours(img, contours, i, st) ==
    IF i > Len(contours) THEN st
    ELSE AnalyzeContours(img, contours, i + 1, AnalyzeContour(img, st, contours[i]))

\* Math.min(...s), Math.max(...s), s.indexOf(v) (0-based)
SeqMin(s) == CHOOSE v \in {s[i] : i \in 1..Len(s)} : \A i \in 1..Len(s) : v <= s[i]
SeqMax(s) == CHOOSE v \in {s[i] : i \in 1..Len(s)} : \A i \in 1..Len(s) : v >= s[i]
IndexOf(s, v) == (CHOOSE i \in 1..Len(s) : s[i] = v /\ \A j \in 1..(i - 1) : s[j] # v) - 1

\* 5. Final Corner Sorting (TL, TR, BR, BL)
SortCorners(bestPoints) ==
    LET sums == [i \in 1..4 |-> bestPoints[i].x + bestPoints[i].y]
        diffs == [i \in 1..4 |-> bestPoints[i].y - bestPoints[i].x]
    IN << bestPoints[IndexOf(sums, SeqMin(sums)) + 1],
          bestPoints[IndexOf(diffs, SeqMin(diffs)) + 1],
          bestPoints[IndexOf(sums, SeqMax(sums)) + 1],
          bestPoints[IndexOf(diffs, SeqMax(diffs)) + 1] >>

\* img.onload of detectDocumentCorners: the value the promise resolves with
DetectOnLoad(img, contours, throws) ==
    IF throws THEN NULL
    ELSE LET st == AnalyzeContours(img, contours, 1, [bestPoints |-> NULL, maxArea |-> 0])
         IN IF st.bestPoints # NULL THEN SortCorners(st.bestPoints) ELSE NULL

\* detectDocumentCorners(imageUrl): env = [readyAt, loads, throws, contours]
DetectDocumentCorners(img, env) ==
    IF ~WaitForCVResolves(env.readyAt) THEN [kind |-> "rejected", value |-> NULL]
    ELSE IF ~env.loads THEN [kind |-> "resolved", value |-> NULL]
    ELSE [kind |-> "resolved", value |-> DetectOnLoad(img, env.contours, env.throws)]

(***************************************************************************)
(* The warp: applyPerspectiveCrop (services/cvService.ts) and executeCrop  *)
(* with warpPerspective (EditorModal, canvas revision).  Points are in Q   *)
(* units; the output raster has whole-pixel sides.                         *)
(***************************************************************************)
Image(pw, ph, psrc) == [w |-> pw, h |-> ph, src |-> psrc]
NoImage == Image(0, 0, "none")

\* Math.hypot(dx, dy) of two lengths given in Q units, truncated to whole pixels
Hypot(dx, dy) == ISqrt(dx * dx + dy * dy) \div Q

\* a target width taken from the top edge alone
TargetWTopOnly(pts) == Hypot(pts[2].x - pts[1].x, pts[2].y - pts[1].y)

\* targetW = Math.max(wTop, wBottom)
TargetW(pts) ==
    LET wTop == Hypot(pts[2].x - pts[1].x, pts[2].y - pts[1].y)
        wBottom == Hypot(pts[3].x - pts[4].x, pts[3].y - pts[4].y)
    IN Max(wTop, wBottom)

\* targetH = Math.max(hLeft, hRight)
TargetH(pts) ==
    LET hLeft == Hypot(pts[4].x - pts[1].x, pts[4].y - pts[1].y)
        hRight == Hypot(pts[3].x - pts[2].x, pts[3].y - pts[2].y)
    IN Max(hLeft, hRight)

\* triangulate: denom, and whether the triangle is drawn
\* (Math.abs(denom) < 0.0001 returns before drawImage; denom is in Q * Q units, so
\* the test is Abs(denom) * 10000 < Q * Q, written without the large product)
Denom(p1, p2, p3) == (p1.x - p3.x) * (p2.y - p3.y) - (p2.x - p3.x) * (p1.y - p3.y)
TriangleDrawn(p1, p2, p3) == ~(Abs(Denom(p1, p2, p3)) <= (Q * Q - 1) \div 10000)

\* warpPerspective(ctx, img, src, dst): the number of triangles it draws
WarpPerspective(src) ==
    (IF TriangleDrawn(src[1], src[2], src[4]) THEN 1 ELSE 0)
    + (IF TriangleDrawn(src[2], src[3], src[4]) THEN 1 ELSE 0)

WarpSrc(n) == IF n = 2 THEN "warp2" ELSE IF n = 1 THEN "warp1" ELSE "warp0"

\* executeCrop(): pts = points, cur = currentImage, hasCtx = canvas.getContext('2d') # null
ExecuteCrop(pts, cur, hasImageRef, hasCtx) ==
    IF pts = NULL \/ ~hasImageRef THEN cur
    ELSE IF hasCtx THEN Image(TargetW(pts), TargetH(pts), WarpSrc(WarpPerspective(pts)))
    ELSE cur

\* applyPerspectiveCrop(imageUrl, points): env = [readyAt, loads, throws]
ApplyPerspectiveCrop(pts, env) ==
    IF ~WaitForCVResolves(env.readyAt) THEN [kind |-> "rejected", value |-> NoImage]
    ELSE IF ~env.loads \/ env.throws THEN [kind |-> "rejected", value |-> NoImage]
    ELSE [kind |-> "resolved", value |-> Image(TargetW(pts), TargetH(pts), "cvwarp")]

\* applyImageAdjustments(imageUrl, brightness, contrast, rotation) for rotation
\* a multiple of 90: the canvas is img.width x img.height, swapped on odd quarter turns
ApplyImageAdjustments(cur, rot, loads, hasCtx) ==
    IF ~loads \/ ~hasCtx THEN [kind |-> "rejected", value |-> NoImage]
    ELSE [kind |-> "resolved",
          value |-> IF (rot \div 90) % 2 = 0 THEN Image(cur.w, cur.h, "adjusted")
                    ELSE Image(cur.h, cur.w, "adjusted")]

(***************************************************************************)
(* EditorModal: geometry of the rendered image.                            *)
(***************************************************************************)
NoDrag == [index |-> -1, type |-> "none"]

\* the images a document item can hold when the editor is first opened
Uploads == { Image(1000, 800, "upload") }

\* positions of the mouse events (clientX, clientY)
Pointers == { Pt(100, 80), Pt(150, 130), Pt(500, 80), Pt(60, 50), Pt(-300, -300) }

\* positions at which a further mouse button is pressed while one is held
ChordPointers == { Pt(150, 130) }

\* const currentImage = history[currentIndex] || item.url
CurrentImage == IF currentIndex >= 0 /\ currentIndex < Len(history)
                THEN history[currentIndex + 1] ELSE item

\* imageRef.current.naturalWidth / naturalHeight
NaturalWidth == loadedImg.w
NaturalHeight == loadedImg.h

\* the layout box of the <img> (max-w-full max-h-[75vh] w-auto h-auto)
LayoutW == loadedImg.w \div layoutDiv
LayoutH == loadedImg.h \div layoutDiv

\* the wrapper is transformed by scale(zoom) rotate(rotation deg) about its centre;
\* zoom is kept in fifths (zoom = 5 is 100%)
QuarterTurned == (rotation \div 90) % 2 # 0

\* imageRef.current.getBoundingClientRect(), in Q units
RectWidth == ((IF QuarterTurned THEN LayoutH ELSE LayoutW) * zoom * Q) \div 5
RectHeight == ((IF QuarterTurned THEN LayoutW ELSE LayoutH) * zoom * Q) \div 5
RectLeft == (LayoutW * Q - RectWidth) \div 2 - scroll.x * Q
RectTop == (LayoutH * Q - RectHeight) \div 2 - scroll.y * Q

\* getClientToNaturalScale(): naturalWidth / rect.width as a fraction (1 when rect.width is 0)
Scale == IF RectWidth = 0 THEN [num |-> 1, den |-> 1]
         ELSE [num |-> NaturalWidth * Q, den |-> RectWidth]

\* a screen length d (pixels) times scale, in Q units
TimesScale(d, sc) == RDiv(d * sc.num * Q, sc.den)
\* a natural coordinate c (Q units) divided by scale, in Q units
OverScale(c, sc) == RDiv(c * sc.den, sc.num)

\* an inset rectangle listed TL, TR, BL, BR
DefaultPointsCrossed(w, h) ==
    << Pt(RDiv(w * Q, 10), RDiv(h * Q, 10)), Pt(RDiv(w * Q * 9, 10), RDiv(h * Q, 10)),
       Pt(RDiv(w * Q, 10), RDiv(h * Q * 9, 10)), Pt(RDiv(w * Q * 9, 10), RDiv(h * Q * 9, 10)) >>

\* the 10%-inset rectangle of handleImageLoad / handlePerformAutoDetection
DefaultPoints(w, h) ==
    << Pt(RDiv(w * Q, 10), RDiv(h * Q, 10)), Pt(RDiv(w * Q * 9, 10), RDiv(h * Q, 10)),
       Pt(RDiv(w * Q * 9, 10), RDiv(h * Q * 9, 10)), Pt(RDiv(w * Q, 10), RDiv(h * Q * 9, 10)) >>

\* whole-pixel points of the detector as stored natural coordinates
ToQ(pts) == [j \in 1..4 |-> Pt(pts[j].x * Q, pts[j].y * Q)]

(***************************************************************************)
(* What OpenCV can report for an image: contours of the downscaled image   *)
(* (cols x rows).  quad: an upright sheet; diamond: a sheet turned 45      *)
(* degrees; blob: a turned sheet whose corners are cut by the frame, a     *)
(* hexagon whose minimum-area rectangle has vertices outside the frame;    *)
(* speck: a quadrilateral below the area threshold.                        *)
(***************************************************************************)
Contour(a, ap, r) == [area |-> a, approx |-> ap, rect |-> r]

QuadContour(c, r) ==
    LET vs == << Pt(c \div 10, r \div 10), Pt(c \div 10, (9 * r) \div 10),
                 Pt((9 * c) \div 10, (9 * r) \div 10), Pt((9 * c) \div 10, r \div 10) >>
    IN Contour(((8 * c) \div 10) * ((8 * r) \div 10), vs, vs)

DiamondContour(c, r) ==
    LET vs == << Pt(c \div 2, r \div 20), Pt(c \div 20, r \div 2),
                 Pt(c \div 2, (19 * r) \div 20), Pt((19 * c) \div 20, r \div 2) >>
    IN Contour(2 * ((9 * c) \div 20) * ((9 * r) \div 20), vs, vs)

BlobContour(c, r) ==
    LET d == (9 * r) \div 16
        e == d - r \div 2
        cx == c \div 2
        cy == r \div 2
    IN Contour(2 * d * d - 2 * e * e,
               << Pt(cx - e, 0), Pt(cx - d, cy), Pt(cx - e, r - 1), Pt(cx + e, r - 1),
                  Pt(cx + d, cy), Pt(cx + e, 0) >>,
               << Pt(cx, cy - d), Pt(cx + d, cy), Pt(cx, cy + d), Pt(cx - d, cy) >>)

SpeckContour(c, r) ==
    LET vs == << Pt(0, 0), Pt(0, r \div 4), Pt(c \div 4, r \div 4), Pt(c \div 4, 0) >>
    IN Contour((c \div 4) * (r \div 4), vs, vs)

ContoursOf(img) ==
    LET c == ResizedCols(img)
        r == ResizedRows(img)
    IN { QuadContour(c, r), DiamondContour(c, r), SpeckContour(c, r) }
       \cup (IF 8 * c >= 9 * r THEN { BlobContour(c, r) } ELSE {})

RECURSIVE SeqsUpTo(_, _)
SeqsUpTo(S, n) ==
    IF n = 0 THEN { << >> }
    ELSE LET shorter == SeqsUpTo(S, n - 1)
         IN shorter \cup { Append(q, e) : q \in shorter, e \in S }

\* an image of no pixels has an empty data URL, which no <img> loads
Loadable(img) == img.w > 0 /\ img.h > 0

\* the environment of one detectDocumentCorners call: OpenCV never loads, or the
\* image fails to load, or an OpenCV call throws, or the contours are found
DetectEnv(r, l, t, cs) == [readyAt |-> r, loads |-> l, throws |-> t, contours |-> cs]
DetectEnvs(img) ==
    { DetectEnv(Retries + 1, TRUE, FALSE, << >>), DetectEnv(0, FALSE, FALSE, << >>) }
    \cup (IF Loadable(img)
          THEN { DetectEnv(0, TRUE, TRUE, << >>) }
               \cup { DetectEnv(0, TRUE, FALSE, cs) :
                        cs \in SeqsUpTo(ContoursOf(img), MaxContours) }
          ELSE {})

\* the environment of one handleSave call: OpenCV never loads, or the image fails to
\* load, or an OpenCV call throws, or the canvas has no 2d context, or none of these
SaveEnv(r, l, t, c) == [readyAt |-> r, loads |-> l, throws |-> t, hasCtx |-> c]
SaveEnvs(call) ==
    { SaveEnv(0, FALSE, FALSE, TRUE) }
    \cup (IF call.kind = "crop" THEN { SaveEnv(Retries + 1, TRUE, FALSE, TRUE) } ELSE {})
    \cup (IF ~Loadable(call.url) THEN {}
          ELSE IF call.kind = "crop"
          THEN { SaveEnv(0, TRUE, FALSE, TRUE), SaveEnv(0, TRUE, TRUE, TRUE) }
          ELSE { SaveEnv(0, TRUE, FALSE, TRUE), SaveEnv(0, TRUE, FALSE, FALSE) })

(***************************************************************************)
(* The document board of App.tsx.  An image url is the sequence of the     *)
(* upload it came from followed by the operations that produced it.        *)
(***************************************************************************)
\* URL.createObjectURL of the k-th uploaded file
UploadUrl(k) == << k >>

\* the ImageItem handleAddItem builds for the k-th uploaded file
NewItem(k) ==
    [id |-> k, url |-> UploadUrl(k), originalUrl |-> UploadUrl(k), originalFile |-> "File",
     type |-> "image", processing |-> FALSE, backupUrl |-> NULL]

\* the DocumentGroup of handleAddDocument and of the initial state
NewDocument(id) == [id |-> id, items |-> << >>, selected |-> FALSE]

boardVars == << documents, batchHistory, boardProcessing, tasks, rotations, editingItem,
                uploads, clicks >>

\* the state of App after construction
BoardInit ==
    /\ documents = << NewDocument(1) >>
    /\ batchHistory = NULL
    /\ boardProcessing = FALSE
    /\ tasks = << >>
    /\ rotations = << >>
    /\ editingItem = << >>
    /\ uploads = 0
    /\ clicks = 0

(***************************************************************************)
(* callWithRetry, waitForCV and the rectangle editor: state.               *)
(***************************************************************************)
retryVars == << cwPc, cwRetries, cwDelay, cwAttempts, cwErrors, cwWaits, cwResult >>
waitVars == << cvState, wcPc, wcRetries, wcChecks, wcWaited >>

\* what callWithRetry has settled with: nothing yet, or the value of operation()
NoResult == [kind |-> "none", status |-> 0, code |-> 0, text |-> ""]
ValueResult == [kind |-> "value", status |-> 0, code |-> 0, text |-> ""]

\* no callWithRetry call has been made
RetryIdle ==
    /\ cwPc = "idle"
    /\ cwRetries = 0
    /\ cwDelay = 0
    /\ cwAttempts = 0
    /\ cwErrors = << >>
    /\ cwWaits = << >>
    /\ cwResult = NoResult

\* no waitForCV call has been made and the OpenCV script has not started loading
WaitIdle ==
    /\ cvState = "absent"
    /\ wcPc = "idle"
    /\ wcRetries = 0
    /\ wcChecks = 0
    /\ wcWaited = 0

rectVars == << rectOpen, rectHistory, rectIndex, rectProcessing, rectTool, crop, maskLines,
               aiCalls, pushes >>

\* the rectangle editor is not mounted
RectClosed ==
    /\ rectOpen = FALSE
    /\ rectHistory = << >>
    /\ rectIndex = 0 - 1
    /\ rectProcessing = FALSE
    /\ rectTool = "crop"
    /\ crop = << >>
    /\ maskLines = 0
    /\ aiCalls = << >>
    /\ pushes = 0

(***************************************************************************)
(* EditorModal: state and handlers.                                        *)
(***************************************************************************)
editorVars == << history, currentIndex, isProcessing, activeTool, points, isDragging,
                 dragInfo, brightness, contrast, rotation, zoom, isPanning,
                 isSpacePressed, panStart, scrollStart, dragStartPos, initialPoints,
                 scroll, loadedImg, detections, saveCalls >>
pureVars == << sortIn, sortOut, warpIn, warpOut, contoursIn, bestOut, boardVars, retryVars, waitVars, rectVars >>
appVars == << variant, layoutDiv, docUrl, isOpen, item >>
logVars == << lastDetect, lastSave, onUpdateCalls >>
countVars == << sessions, gestures, chords, edits, saves, commits >>

\* the useState / useRef initial values of a mounted EditorModal
Unmounted ==
    /\ history' = << >>
    /\ currentIndex' = -1
    /\ isProcessing' = FALSE
    /\ activeTool' = "crop"
    /\ points' = NULL
    /\ isDragging' = FALSE
    /\ dragInfo' = NoDrag
    /\ brightness' = 100
    /\ contrast' = 100
    /\ rotation' = 0
    /\ zoom' = 5
    /\ isPanning' = FALSE
    /\ isSpacePressed' = FALSE
    /\ panStart' = Pt(0, 0)
    /\ scrollStart' = Pt(0, 0)
    /\ dragStartPos' = Pt(0, 0)
    /\ initialPoints' = NULL
    /\ scroll' = Pt(0, 0)
    /\ loadedImg' = NoImage
    /\ detections' = << >>

\* App before the editor is opened on an item
EditorClosed ==
    /\ isOpen = FALSE
    /\ item = NoImage
    /\ history = << >>
    /\ currentIndex = -1
    /\ isProcessing = FALSE
    /\ activeTool = "crop"
    /\ points = NULL
    /\ isDragging = FALSE
    /\ dragInfo = NoDrag
    /\ brightness = 100
    /\ contrast = 100
    /\ rotation = 0
    /\ zoom = 5
    /\ isPanning = FALSE
    /\ isSpacePressed = FALSE
    /\ panStart = Pt(0, 0)
    /\ scrollStart = Pt(0, 0)
    /\ dragStartPos = Pt(0, 0)
    /\ initialPoints = NULL
    /\ scroll = Pt(0, 0)
    /\ loadedImg = NoImage
    /\ detections = << >>
    /\ saveCalls = << >>
    /\ lastDetect = [kind |-> "none", value |-> NULL]
    /\ lastSave = "none"
    /\ onUpdateCalls = 0
    /\ sessions = 0
    /\ gestures = 0
    /\ chords = 0
    /\ edits = 0
    /\ saves = 0
    /\ commits = 0

EditorInit ==
    /\ variant \in {"cv", "canvas"}
    /\ layoutDiv \in {1, 2}
    /\ docUrl \in Uploads
    /\ EditorClosed

NoSort == [once |-> NULL, twice |-> NULL]
NoWarp == [done |-> FALSE, canvas |-> NoImage, cv |-> [kind |-> "none", value |-> NoImage]]
NoScan == [done |-> FALSE, value |-> NULL]

Init ==
    /\ EditorInit
    /\ sortIn = NULL /\ sortOut = NoSort
    /\ warpIn = NULL /\ warpOut = NoWarp
    /\ contoursIn = << >> /\ bestOut = NoScan
    /\ BoardInit
    /\ RetryIdle
    /\ WaitIdle
    /\ RectClosed

\* App.handleEditItem, the mount of the modal and its open effect
OpenEditor ==
    /\ ~isOpen
    /\ sessions < MaxSessions
    /\ isOpen' = TRUE
    /\ item' = docUrl
    /\ history' = << docUrl >>
    /\ currentIndex' = 0
    /\ points' = NULL
    /\ isDragging' = FALSE
    /\ zoom' = 5
    /\ activeTool' = "crop"
    /\ isPanning' = FALSE
    /\ brightness' = 100
    /\ contrast' = 100
    /\ rotation' = 0
    /\ sessions' = sessions + 1
    /\ UNCHANGED << gestures, chords, edits, saves, commits >>
    /\ UNCHANGED << variant, layoutDiv, docUrl, isProcessing, dragInfo, isSpacePressed,
                    panStart, scrollStart, dragStartPos, initialPoints, scroll,
                    loadedImg, detections, saveCalls >>
    /\ UNCHANGED << logVars, pureVars >>

\* handlePerformAutoDetection up to its await (cv revision)
StartAutoDetection ==
    IF points # NULL
    THEN UNCHANGED << points, isProcessing, detections >>
    ELSE /\ isProcessing' = TRUE
         /\ detections' = Append(detections, CurrentImage)
         /\ UNCHANGED points

\* handleImageLoad of the canvas revision; natW, natH = imageRef.current.natural*
InitDefaultPoints(natW, natH) ==
    IF points # NULL
    THEN UNCHANGED << points, isProcessing, detections >>
    ELSE /\ points' = DefaultPoints(natW, natH)
         /\ UNCHANGED << isProcessing, detections >>

HandleImageLoad(natW, natH) ==
    IF variant = "cv" THEN StartAutoDetection ELSE InitDefaultPoints(natW, natH)

\* the onLoad event of the <img>
ImageLoad ==
    /\ isOpen
    /\ loadedImg # CurrentImage
    /\ Loadable(CurrentImage)
    /\ loadedImg' = CurrentImage
    /\ HandleImageLoad(CurrentImage.w, CurrentImage.h)
    /\ UNCHANGED << history, currentIndex, activeTool, isDragging, dragInfo, brightness,
                    contrast, rotation, zoom, isPanning, isSpacePressed, panStart,
                    scrollStart, dragStartPos, initialPoints, scroll, saveCalls >>
    /\ UNCHANGED << appVars, logVars, countVars, pureVars >>

\* the listener effect registers mousemove / mouseup only while dragging or panning
Listening == isDragging \/ isPanning

\* the processing overlay (fixed inset-0 z-[100]) covers every button while isProcessing,
\* and a drag or a pan holds the mouse button the buttons are clicked with
UiFree == isOpen /\ ~isProcessing /\ ~Listening

\* the "Recorte Manual" button
ToggleCrop ==
    /\ UiFree
    /\ activeTool' = IF activeTool = "crop" THEN "none" ELSE "crop"
    /\ HandleImageLoad(NaturalWidth, NaturalHeight)
    /\ UNCHANGED << history, currentIndex, isDragging, dragInfo, brightness, contrast,
                    rotation, zoom, isPanning, isSpacePressed, panStart, scrollStart,
                    dragStartPos, initialPoints, scroll, loadedImg, saveCalls >>
    /\ UNCHANGED << appVars, logVars, countVars, pureVars >>

\* the "Ajustes Finos" button
ToggleAdjust ==
    /\ UiFree
    /\ activeTool' = IF activeTool = "adjust" THEN "none" ELSE "adjust"
    /\ UNCHANGED << history, currentIndex, isProcessing, points, isDragging, dragInfo,
                    brightness, contrast, rotation, zoom, isPanning, isSpacePressed,
                    panStart, scrollStart, dragStartPos, initialPoints, scroll,
                    loadedImg, detections, saveCalls >>
    /\ UNCHANGED << appVars, logVars, countVars, pureVars >>

\* the zoom buttons: Math.max(0.2, z - 0.2) and Math.min(5, z + 0.2)
ZoomOut ==
    /\ UiFree /\ edits < MaxEdits
    /\ zoom' = Max(1, zoom - 1)
    /\ edits' = edits + 1
    /\ UNCHANGED << history, currentIndex, isProcessing, activeTool, points, isDragging,
                    dragInfo, brightness, contrast, rotation, isPanning, isSpacePressed,
                    panStart, scrollStart, dragStartPos, initialPoints, scroll,
                    loadedImg, detections, saveCalls >>
    /\ UNCHANGED << appVars, logVars, sessions, gestures, chords, saves, commits, pureVars >>

ZoomIn ==
    /\ UiFree /\ edits < MaxEdits
    /\ zoom' = Min(25, zoom + 1)
    /\ edits' = edits + 1
    /\ UNCHANGED << history, currentIndex, isProcessing, activeTool, points, isDragging,
                    dragInfo, brightness, contrast, rotation, isPanning, isSpacePressed,
                    panStart, scrollStart, dragStartPos, initialPoints, scroll,
                    loadedImg, detections, saveCalls >>
    /\ UNCHANGED << appVars, logVars, sessions, gestures, chords, saves, commits, pureVars >>

\* the sliders and rotate buttons of the adjust panel (rendered when activeTool = 'adjust')
SliderValues == {80, 100}

SetBrightness(v) ==
    /\ UiFree /\ edits < MaxEdits /\ activeTool = "adjust"
    /\ brightness' = v
    /\ edits' = edits + 1
    /\ UNCHANGED << history, currentIndex, isProcessing, activeTool, points, isDragging,
                    dragInfo, contrast, rotation, zoom, isPanning, isSpacePressed,
                    panStart, scrollStart, dragStartPos, initialPoints, scroll,
                    loadedImg, detections, saveCalls >>
    /\ UNCHANGED << appVars, logVars, sessions, gestures, chords, saves, commits, pureVars >>

SetContrast(v) ==
    /\ UiFree /\ edits < MaxEdits /\ activeTool = "adjust"
    /\ contrast' = v
    /\ edits' = edits + 1
    /\ UNCHANGED << history, currentIndex, isProcessing, activeTool, points, isDragging,
                    dragInfo, brightness, rotation, zoom, isPanning, isSpacePressed,
                    panStart, scrollStart, dragStartPos, initialPoints, scroll,
                    loadedImg, detections, saveCalls >>
    /\ UNCHANGED << appVars, logVars, sessions, gestures, chords, saves, commits, pureVars >>

Rotate(d) ==
    /\ UiFree /\ edits < MaxEdits /\ activeTool = "adjust"
    /\ rotation' = rotation + d
    /\ edits' = edits + 1
    /\ UNCHANGED << history, currentIndex, isProcessing, activeTool, points, isDragging,
                    dragInfo, brightness, contrast, zoom, isPanning, isSpacePressed,
                    panStart, scrollStart, dragStartPos, initialPoints, scroll,
                    loadedImg, detections, saveCalls >>
    /\ UNCHANGED << appVars, logVars, sessions, gestures, chords, saves, commits, pureVars >>

\* window keydown / keyup of the space bar
KeyDownSpace ==
    /\ isOpen /\ ~isSpacePressed /\ edits < MaxEdits
    /\ isSpacePressed' = TRUE
    /\ edits' = edits + 1
    /\ UNCHANGED << history, currentIndex, isProcessing, activeTool, points, isDragging,
                    dragInfo, brightness, contrast, rotation, zoom, isPanning, panStart,
                    scrollStart, dragStartPos, initialPoints, scroll, loadedImg,
                    detections, saveCalls >>
    /\ UNCHANGED << appVars, logVars, sessions, gestures, chords, saves, commits, pureVars >>

KeyUpSpace ==
    /\ isOpen /\ isSpacePressed
    /\ isSpacePressed' = FALSE
    /\ isPanning' = FALSE
    /\ UNCHANGED << history, currentIndex, isProcessing, activeTool, points, isDragging,
                    dragInfo, brightness, contrast, rotation, zoom, panStart,
                    scrollStart, dragStartPos, initialPoints, scroll, loadedImg,
                    detections, saveCalls >>
    /\ UNCHANGED << appVars, logVars, countVars, pureVars >>

(***************************************************************************)
(* The drag controller: handleMouseDown, handleWindowMouseMove,            *)
(* handleWindowMouseUp.                                                    *)
(***************************************************************************)
\* const handleRadius = 25 / zoom, in Q units
HandleRadius == RDiv(25 * 5 * Q, zoom)

\* Math.hypot(a, b) < r on lengths in Q units
HypotLess(a, b, r) == a * a + b * b < r * r

\* the corner test of handleMouseDown for corner i at the press position p
CornerHit(pts, i, p) ==
    LET px == OverScale(pts[i + 1].x, Scale) + RectLeft
        py == OverScale(pts[i + 1].y, Scale) + RectTop
    IN HypotLess(p.x * Q - px, p.y * Q - py, HandleRadius)

\* the edge test of handleMouseDown for the midpoint of edge i
EdgeHit(pts, i, p) ==
    LET p1 == pts[i + 1]
        p2 == pts[((i + 1) % 4) + 1]
        midX == RDiv((p1.x + p2.x) * Scale.den, 2 * Scale.num) + RectLeft
        midY == RDiv((p1.y + p2.y) * Scale.den, 2 * Scale.num) + RectTop
    IN HypotLess(p.x * Q - midX, p.y * Q - midY, HandleRadius)

\* a hit test that runs the edge loop before the corner loop
HitTestEdgesFirst(pts, p) ==
    IF \E i \in 0..3 : EdgeHit(pts, i, p)
    THEN [index |-> CHOOSE i \in 0..3 : EdgeHit(pts, i, p)
                        /\ \A j \in 0..(i - 1) : ~EdgeHit(pts, j, p),
          type |-> "edge"]
    ELSE IF \E i \in 0..3 : CornerHit(pts, i, p)
    THEN [index |-> CHOOSE i \in 0..3 : CornerHit(pts, i, p)
                        /\ \A j \in 0..(i - 1) : ~CornerHit(pts, j, p),
          type |-> "corner"]
    ELSE NoDrag

\* the two loops of handleMouseDown: the handle the press selects, or NoDrag
HitTest(pts, p) ==
    IF \E i \in 0..3 : CornerHit(pts, i, p)
    THEN [index |-> CHOOSE i \in 0..3 : CornerHit(pts, i, p)
                        /\ \A j \in 0..(i - 1) : ~CornerHit(pts, j, p),
          type |-> "corner"]
    ELSE IF \E i \in 0..3 : EdgeHit(pts, i, p)
    THEN [index |-> CHOOSE i \in 0..3 : EdgeHit(pts, i, p)
                        /\ \A j \in 0..(i - 1) : ~EdgeHit(pts, j, p),
          type |-> "edge"]
    ELSE NoDrag

\* the press lands on the wrapper: inside the bounding box of the image
OnWrapper(p) ==
    /\ RectLeft <= p.x * Q /\ p.x * Q <= RectLeft + RectWidth
    /\ RectTop <= p.y * Q /\ p.y * Q <= RectTop + RectHeight

\* onMouseDown of the wrapper.  It fires for every mouse button and reads neither
\* e.button nor isDragging / isPanning, so it also runs while another button is held.
handleMouseDown(p) ==
    /\ isOpen /\ OnWrapper(p)
    /\ IF Listening
       THEN /\ chords < MaxChords /\ p \in ChordPointers
            /\ chords' = chords + 1 /\ UNCHANGED gestures
       ELSE gestures < MaxGestures /\ gestures' = gestures + 1 /\ UNCHANGED chords
    /\ IF isProcessing \/ points = NULL
       THEN UNCHANGED << isPanning, panStart, scrollStart, isDragging, dragInfo,
                         dragStartPos, initialPoints >>
       ELSE IF isSpacePressed \/ activeTool = "none"
       THEN /\ isPanning' = TRUE
            /\ panStart' = p
            /\ scrollStart' = scroll
            /\ UNCHANGED << isDragging, dragInfo, dragStartPos, initialPoints >>
       ELSE IF activeTool = "crop" /\ HitTest(points, p) # NoDrag
       THEN /\ isDragging' = TRUE
            /\ dragInfo' = HitTest(points, p)
            /\ dragStartPos' = p
            /\ initialPoints' = points
            /\ UNCHANGED << isPanning, panStart, scrollStart >>
       ELSE UNCHANGED << isPanning, panStart, scrollStart, isDragging, dragInfo,
                         dragStartPos, initialPoints >>
    /\ UNCHANGED << history, currentIndex, isProcessing, activeTool, points, brightness,
                    contrast, rotation, zoom, isSpacePressed, scroll, loadedImg,
                    detections, saveCalls >>
    /\ UNCHANGED << appVars, logVars, sessions, edits, saves, commits, pureVars >>

\* Math.max(0, Math.min(hi, v))
Clamp(v, hi) == Max(0, Min(hi, v))

\* a corner branch that forgets Math.max(0, Math.min(...))
DragCornerUnclamped(init, i, deltaX, deltaY, imgW, imgH) ==
    [init EXCEPT ![i + 1] = Pt(init[i + 1].x + deltaX, init[i + 1].y + deltaY)]

\* the corner branch of handleWindowMouseMove
DragCorner(init, i, deltaX, deltaY, imgW, imgH) ==
    [init EXCEPT ![i + 1] = Pt(Clamp(init[i + 1].x + deltaX, imgW),
                               Clamp(init[i + 1].y + deltaY, imgH))]

\* an edge branch that moves idx1 only
DragEdgeOneCorner(init, i, deltaX, deltaY, imgW, imgH) ==
    [init EXCEPT ![i + 1] = Pt(Clamp(init[i + 1].x + deltaX, imgW),
                               Clamp(init[i + 1].y + deltaY, imgH))]

\* the edge branch of handleWindowMouseMove
DragEdge(init, i, deltaX, deltaY, imgW, imgH) ==
    LET idx1 == i
        idx2 == (i + 1) % 4
    IN [init EXCEPT ![idx1 + 1] = Pt(Clamp(init[idx1 + 1].x + deltaX, imgW),
                                     Clamp(init[idx1 + 1].y + deltaY, imgH)),
                    ![idx2 + 1] = Pt(Clamp(init[idx2 + 1].x + deltaX, imgW),
                                     Clamp(init[idx2 + 1].y + deltaY, imgH))]

\* newPoints chained on the current points instead of initialPoints.current
NewPointsChained(p) ==
    LET deltaX == TimesScale(p.x - dragStartPos.x, Scale)
        deltaY == TimesScale(p.y - dragStartPos.y, Scale)
        imgW == NaturalWidth * Q
        imgH == NaturalHeight * Q
    IN IF dragInfo.type = "corner"
       THEN DragCorner(points, dragInfo.index, deltaX, deltaY, imgW, imgH)
       ELSE DragEdge(points, dragInfo.index, deltaX, deltaY, imgW, imgH)

\* newPoints of handleWindowMouseMove for a move event at p
NewPoints(p) ==
    LET deltaX == TimesScale(p.x - dragStartPos.x, Scale)
        deltaY == TimesScale(p.y - dragStartPos.y, Scale)
        imgW == NaturalWidth * Q
        imgH == NaturalHeight * Q
    IN IF dragInfo.type = "corner"
       THEN DragCorner(initialPoints, dragInfo.index, deltaX, deltaY, imgW, imgH)
       ELSE DragEdge(initialPoints, dragInfo.index, deltaX, deltaY, imgW, imgH)

\* the browser keeps scrollLeft / scrollTop inside the scrollable range
ClampScroll(v) == Max(0, Min(MaxScroll, v))

\* the pan branch of handleWindowMouseMove
PanScroll(p) == Pt(ClampScroll(scrollStart.x - (p.x - panStart.x)),
                   ClampScroll(scrollStart.y - (p.y - panStart.y)))

\* a move handler whose drag branch is guarded by the snapshot alone and keeps
\* moving corner 0 when no handle is held
handleWindowMouseMoveUnguarded(p) ==
    /\ isOpen
    /\ IF isPanning
       THEN scroll' = PanScroll(p) /\ UNCHANGED points
       ELSE IF points = NULL \/ initialPoints = NULL
       THEN UNCHANGED << scroll, points >>
       ELSE /\ points' = IF dragInfo = NoDrag
                         THEN DragCorner(initialPoints, 0,
                                         TimesScale(p.x - dragStartPos.x, Scale),
                                         TimesScale(p.y - dragStartPos.y, Scale),
                                         NaturalWidth * Q, NaturalHeight * Q)
                         ELSE NewPoints(p)
            /\ UNCHANGED scroll
    /\ UNCHANGED << history, currentIndex, isProcessing, activeTool, isDragging, dragInfo,
                    brightness, contrast, rotation, zoom, isPanning, isSpacePressed,
                    panStart, scrollStart, dragStartPos, initialPoints, loadedImg,
                    detections, saveCalls >>
    /\ UNCHANGED << appVars, logVars, countVars, pureVars >>

\* a mousemove on the window.  The listener effect keeps the handler registered
\* while dragging or panning; an event that reaches it at any other moment meets
\* the handler's own guards.
handleWindowMouseMove(p) ==
    /\ isOpen
    /\ IF isPanning
       THEN scroll' = PanScroll(p) /\ UNCHANGED points
       ELSE IF ~isDragging \/ points = NULL \/ initialPoints = NULL
               \/ dragInfo = NoDrag
       THEN UNCHANGED << scroll, points >>
       ELSE points' = NewPoints(p) /\ UNCHANGED scroll
    /\ UNCHANGED << history, currentIndex, isProcessing, activeTool, isDragging, dragInfo,
                    brightness, contrast, rotation, zoom, isPanning, isSpacePressed,
                    panStart, scrollStart, dragStartPos, initialPoints, loadedImg,
                    detections, saveCalls >>
    /\ UNCHANGED << appVars, logVars, countVars, pureVars >>

\* a release that puts the drag-start snapshot back
handleWindowMouseUpReverting ==
    /\ isOpen
    /\ isPanning' = FALSE
    /\ isDragging' = FALSE
    /\ dragInfo' = NoDrag
    /\ points' = IF isDragging THEN initialPoints ELSE points
    /\ UNCHANGED << history, currentIndex, isProcessing, activeTool, brightness,
                    contrast, rotation, zoom, isSpacePressed, panStart, scrollStart,
                    dragStartPos, initialPoints, scroll, loadedImg, detections, saveCalls >>
    /\ UNCHANGED << appVars, logVars, countVars, pureVars >>

\* a mouseup on the window
handleWindowMouseUp ==
    /\ isOpen
    /\ isPanning' = FALSE
    /\ isDragging' = FALSE
    /\ dragInfo' = NoDrag
    /\ UNCHANGED << history, currentIndex, isProcessing, activeTool, points, brightness,
                    contrast, rotation, zoom, isSpacePressed, panStart, scrollStart,
                    dragStartPos, initialPoints, scroll, loadedImg, detections, saveCalls >>
    /\ UNCHANGED << appVars, logVars, countVars, pureVars >>

(***************************************************************************)
(* Asynchronous completions and the commit / confirm handlers.             *)
(***************************************************************************)
RemoveAt(q, k) == [j \in 1..(Len(q) - 1) |-> IF j < k THEN q[j] ELSE q[j + 1]]

\* handlePerformAutoDetection from its await on: the call number k settles
DetectSettle(k, env) ==
    LET res == DetectDocumentCorners(detections[k], env)
    IN /\ isOpen
       /\ k \in 1..Len(detections)
       /\ detections' = RemoveAt(detections, k)
       /\ lastDetect' = res
       /\ IF res.kind = "rejected"
          THEN UNCHANGED << points, isProcessing >>
          ELSE /\ points' = IF res.value # NULL THEN ToQ(res.value)
                            ELSE DefaultPoints(NaturalWidth, NaturalHeight)
               /\ isProcessing' = FALSE
       /\ UNCHANGED << history, currentIndex, activeTool, isDragging, dragInfo,
                       brightness, contrast, rotation, zoom, isPanning, isSpacePressed,
                       panStart, scrollStart, dragStartPos, initialPoints, scroll,
                       loadedImg, saveCalls >>
       /\ UNCHANGED << appVars, lastSave, onUpdateCalls, countVars, pureVars >>

\* App: onClose() = setEditingItem(null); the modal unmounts
CloseModal ==
    /\ isOpen' = FALSE
    /\ item' = NoImage
    /\ Unmounted

\* onUpdate({ ...item, url: finalUrl }); onClose();
UpdateAndClose(finalUrl) ==
    /\ docUrl' = finalUrl
    /\ onUpdateCalls' = onUpdateCalls + 1
    /\ lastSave' = "saved"
    /\ CloseModal

\* brightness !== 100 || contrast !== 100 || rotation !== 0
NeedsAdjust == brightness # 100 \/ contrast # 100 \/ rotation # 0

SaveCall(k) == [kind |-> k, url |-> CurrentImage, pts |-> points, rot |-> rotation]

\* handleSave, were pending adjustments looked at before the crop tool
handleSaveAdjustFirst ==
    /\ UiFree /\ saves < MaxSaves
    /\ saves' = saves + 1
    /\ IF NeedsAdjust
       THEN /\ isProcessing' = TRUE
            /\ saveCalls' = Append(saveCalls, SaveCall("adjust"))
            /\ UNCHANGED << docUrl, isOpen, item, history, currentIndex, activeTool,
                            points, isDragging, dragInfo, brightness, contrast,
                            rotation, zoom, isPanning, isSpacePressed, panStart,
                            scrollStart, dragStartPos, initialPoints, scroll,
                            loadedImg, detections, lastSave, onUpdateCalls >>
       ELSE IF activeTool = "crop" /\ points # NULL
       THEN IF variant = "cv"
            THEN /\ isProcessing' = TRUE
                 /\ saveCalls' = Append(saveCalls, SaveCall("crop"))
                 /\ UNCHANGED << docUrl, isOpen, item, history, currentIndex, activeTool,
                                 points, isDragging, dragInfo, brightness, contrast,
                                 rotation, zoom, isPanning, isSpacePressed, panStart,
                                 scrollStart, dragStartPos, initialPoints, scroll,
                                 loadedImg, detections, lastSave, onUpdateCalls >>
            ELSE /\ \E hasCtx \in BOOLEAN :
                        UpdateAndClose(ExecuteCrop(points, CurrentImage, TRUE, hasCtx))
                 /\ UNCHANGED saveCalls
       ELSE UpdateAndClose(CurrentImage) /\ UNCHANGED saveCalls
    /\ UNCHANGED << variant, layoutDiv, lastDetect, sessions, gestures, chords, edits, commits, pureVars >>

\* handleSave: the click on the confirm button, up to the first await
handleSave ==
    /\ UiFree /\ saves < MaxSaves
    /\ saves' = saves + 1
    /\ IF activeTool = "crop" /\ points # NULL
       THEN IF variant = "cv"
            THEN /\ isProcessing' = TRUE
                 /\ saveCalls' = Append(saveCalls, SaveCall("crop"))
                 /\ UNCHANGED << docUrl, isOpen, item, history, currentIndex, activeTool,
                                 points, isDragging, dragInfo, brightness, contrast,
                                 rotation, zoom, isPanning, isSpacePressed, panStart,
                                 scrollStart, dragStartPos, initialPoints, scroll,
                                 loadedImg, detections, lastSave, onUpdateCalls >>
            ELSE /\ \E hasCtx \in BOOLEAN :
                        UpdateAndClose(ExecuteCrop(points, CurrentImage, TRUE, hasCtx))
                 /\ UNCHANGED saveCalls
       ELSE IF NeedsAdjust
       THEN /\ isProcessing' = TRUE
            /\ saveCalls' = Append(saveCalls, SaveCall("adjust"))
            /\ UNCHANGED << docUrl, isOpen, item, history, currentIndex, activeTool,
                            points, isDragging, dragInfo, brightness, contrast,
                            rotation, zoom, isPanning, isSpacePressed, panStart,
                            scrollStart, dragStartPos, initialPoints, scroll,
                            loadedImg, detections, lastSave, onUpdateCalls >>
       ELSE UpdateAndClose(CurrentImage) /\ UNCHANGED saveCalls
    /\ UNCHANGED << variant, layoutDiv, lastDetect, sessions, gestures, chords, edits, commits, pureVars >>

\* a catch block without the finally block
SaveCatchNoFinally(what) ==
    /\ lastSave' = what
    /\ UNCHANGED << docUrl, isOpen, item, history, currentIndex, isProcessing, activeTool,
                    points, isDragging, dragInfo, brightness, contrast, rotation, zoom,
                    isPanning, isSpacePressed, panStart, scrollStart, dragStartPos,
                    initialPoints, scroll, loadedImg, detections, onUpdateCalls >>

\* the catch and finally blocks of handleSave (cv revision) after a rejection
SaveCatch(what) ==
    /\ lastSave' = what
    /\ isProcessing' = FALSE
    /\ UNCHANGED << docUrl, isOpen, item, history, currentIndex, activeTool, points,
                    isDragging, dragInfo, brightness, contrast, rotation, zoom,
                    isPanning, isSpacePressed, panStart, scrollStart, dragStartPos,
                    initialPoints, scroll, loadedImg, detections,
                    onUpdateCalls >>

\* handleSave of the canvas revision has no try: a rejection ends the handler
SaveDies(what) ==
    /\ lastSave' = what
    /\ UNCHANGED << docUrl, isOpen, item, history, currentIndex, isProcessing, activeTool,
                    points, isDragging, dragInfo, brightness, contrast, rotation, zoom,
                    isPanning, isSpacePressed, panStart, scrollStart, dragStartPos,
                    initialPoints, scroll, loadedImg, detections,
                    onUpdateCalls >>

\* handleSave from its await on: the call number k settles
SaveSettle(k, env) ==
    LET call == saveCalls[k]
        res == IF call.kind = "crop" THEN ApplyPerspectiveCrop(call.pts, env)
               ELSE ApplyImageAdjustments(call.url, call.rot, env.loads, env.hasCtx)
        what == IF call.kind = "crop" THEN "warpFailed" ELSE "adjustFailed"
    IN /\ k \in 1..Len(saveCalls)
       /\ saveCalls' = RemoveAt(saveCalls, k)
       /\ IF res.kind = "resolved" THEN UpdateAndClose(res.value)
          ELSE IF variant = "cv" THEN SaveCatch(what)
          ELSE SaveDies(what)
       /\ UNCHANGED << variant, layoutDiv, lastDetect, countVars, pureVars >>

\* the X button
Close ==
    /\ UiFree
    /\ CloseModal
    /\ UNCHANGED << variant, layoutDiv, docUrl, saveCalls, logVars, countVars, pureVars >>

Next ==
    \/ OpenEditor
    \/ ImageLoad
    \/ ToggleCrop
    \/ ToggleAdjust
    \/ ZoomOut
    \/ ZoomIn
    \/ \E v \in SliderValues : SetBrightness(v)
    \/ \E v \in SliderValues : SetContrast(v)
    \/ \E d \in {-90, 90} : Rotate(d)
    \/ KeyDownSpace
    \/ KeyUpSpace
    \/ \E p \in Pointers : handleMouseDown(p)
    \/ \E p \in Pointers : handleWindowMouseMove(p)
    \/ handleWindowMouseUp
    \/ \E k \in 1..Len(detections) : \E env \in DetectEnvs(detections[k]) : DetectSettle(k, env)
    \/ handleSave
    \/ \E k \in 1..Len(saveCalls) : \E env \in SaveEnvs(saveCalls[k]) : SaveSettle(k, env)
    \/ Close

Spec == Init /\ [][Next]_vars

(***************************************************************************)
(* The history of the canvas revision: pushToHistory, handleApplyCrop and  *)
(* the undo / redo buttons.  handleApplyCrop is defined by the component   *)
(* but bound to no control of its JSX, so Next cannot take it; CommitSpec  *)
(* is the editor with that handler invoked.                                *)
(***************************************************************************)
\* pushToHistory(newUrl)
pushToHistory(newUrl) ==
    LET newHistory == Append(SubSeq(history, 1, currentIndex + 1), newUrl)
    IN /\ history' = newHistory
       /\ currentIndex' = Len(newHistory) - 1
       /\ points' = NULL
       /\ brightness' = 100
       /\ contrast' = 100
       /\ rotation' = 0

\* handleApplyCrop: executeCrop() has no await of its own, so the crop, the
\* continuation after 'await executeCrop()' and both setIsProcessing calls run
\* before any other event
handleApplyCrop ==
    /\ UiFree /\ variant = "canvas"
    /\ commits < MaxCommits
    /\ commits' = commits + 1
    /\ \E hasCtx \in BOOLEAN :
          pushToHistory(ExecuteCrop(points, CurrentImage, TRUE, hasCtx))
    /\ isProcessing' = FALSE
    /\ UNCHANGED << activeTool, isDragging, dragInfo, zoom, isPanning, isSpacePressed,
                    panStart, scrollStart, dragStartPos, initialPoints, scroll,
                    loadedImg, detections, saveCalls >>
    /\ UNCHANGED << appVars, logVars, sessions, gestures, chords, edits, saves, pureVars >>

\* the undo button: currentIndex > 0 && setCurrentIndex(c => c - 1)
handleUndo ==
    /\ UiFree /\ currentIndex > 0
    /\ currentIndex' = currentIndex - 1
    /\ UNCHANGED << history, isProcessing, activeTool, points, isDragging, dragInfo,
                    brightness, contrast, rotation, zoom, isPanning, isSpacePressed,
                    panStart, scrollStart, dragStartPos, initialPoints, scroll,
                    loadedImg, detections, saveCalls >>
    /\ UNCHANGED << appVars, logVars, countVars, pureVars >>

\* the redo button: currentIndex < history.length - 1 && setCurrentIndex(c => c + 1)
handleRedo ==
    /\ UiFree /\ currentIndex < Len(history) - 1
    /\ currentIndex' = currentIndex + 1
    /\ UNCHANGED << history, isProcessing, activeTool, points, isDragging, dragInfo,
                    brightness, contrast, rotation, zoom, isPanning, isSpacePressed,
                    panStart, scrollStart, dragStartPos, initialPoints, scroll,
                    loadedImg, detections, saveCalls >>
    /\ UNCHANGED << appVars, logVars, countVars, pureVars >>

CommitInit == Init /\ variant = "canvas"

CommitNext ==
    \/ OpenEditor
    \/ ImageLoad
    \/ \E p \in Pointers : handleMouseDown(p)
    \/ \E p \in Pointers : handleWindowMouseMove(p)
    \/ handleWindowMouseUp
    \/ handleApplyCrop
    \/ handleUndo
    \/ handleRedo
    \/ Close

CommitSpec == CommitInit /\ [][CommitNext]_vars

(***************************************************************************)
(* The corner sort taken alone: step 5 of detectDocumentCorners applied to *)
(* every sequence of four points of a small grid, once and to its own      *)
(* result.                                                                 *)
(***************************************************************************)
GridPoints == { Pt(a, b) : a \in 0..GridMax, b \in 0..GridMax }

SortInit ==
    /\ variant = "cv" /\ layoutDiv = 1 /\ docUrl \in Uploads
    /\ EditorClosed
    /\ sortIn \in [1..4 -> GridPoints] /\ sortOut = NoSort
    /\ warpIn = NULL /\ warpOut = NoWarp
    /\ contoursIn = << >> /\ bestOut = NoScan
    /\ BoardInit
    /\ RetryIdle
    /\ WaitIdle
    /\ RectClosed

ApplySort ==
    /\ sortOut = NoSort
    /\ sortOut' = [once |-> SortCorners(sortIn), twice |-> SortCorners(SortCorners(sortIn))]
    /\ UNCHANGED << appVars, editorVars, logVars, countVars, sortIn, warpIn, warpOut,
                    contoursIn, bestOut, boardVars, retryVars, waitVars, rectVars >>

SortSpec == SortInit /\ [][ApplySort]_vars

(***************************************************************************)
(* The warp taken alone: executeCrop (canvas revision) and                 *)
(* applyPerspectiveCrop (OpenCV revision) applied to every corner set over *)
(* the corners, edge midpoints and centre of a 100 x 100 image.            *)
(***************************************************************************)
WarpImage == Image(100, 100, "upload")
WarpPoints == { Pt(a * Q, b * Q) : a \in {0, 50, 100}, b \in {0, 50, 100} }

WarpInit ==
    /\ variant = "canvas" /\ layoutDiv = 1 /\ docUrl = WarpImage
    /\ EditorClosed
    /\ sortIn = NULL /\ sortOut = NoSort
    /\ warpIn \in [1..4 -> WarpPoints] /\ warpOut = NoWarp
    /\ contoursIn = << >> /\ bestOut = NoScan
    /\ BoardInit
    /\ RetryIdle
    /\ WaitIdle
    /\ RectClosed

ApplyWarp ==
    /\ ~warpOut.done
    /\ \E hasCtx \in BOOLEAN :
       \E env \in SaveEnvs([kind |-> "crop", url |-> WarpImage, pts |-> warpIn, rot |-> 0]) :
           warpOut' = [done |-> TRUE,
                       canvas |-> ExecuteCrop(warpIn, WarpImage, TRUE, hasCtx),
                       cv |-> ApplyPerspectiveCrop(warpIn, env)]
    /\ UNCHANGED << appVars, editorVars, logVars, countVars, sortIn, sortOut, warpIn,
                    contoursIn, bestOut, boardVars, retryVars, waitVars, rectVars >>

WarpSpec == WarpInit /\ [][ApplyWarp]_vars

(***************************************************************************)
(* The contour analysis taken alone: step 4 and step 5 of                  *)
(* detectDocumentCorners applied to every sequence of up to MaxScan        *)
(* contours of a 1000 x 800 image (resized to 800 x 640).  Besides the     *)
(* contours of ContoursOf there are a second quadrilateral of the area of  *)
(* the first, and a hexagon larger than every quadrilateral.               *)
(***************************************************************************)
ScanImage == Image(1000, 800, "upload")

ShiftedQuadContour(c, r) ==
    LET vs == << Pt(0, 0), Pt(0, (8 * r) \div 10),
                 Pt((8 * c) \div 10, (8 * r) \div 10), Pt((8 * c) \div 10, 0) >>
    IN Contour(((8 * c) \div 10) * ((8 * r) \div 10), vs, vs)

BigBlobContour(c, r) ==
    Contour((c - 1) * (r - 1) - (c * r) \div 20,
            << Pt(c \div 20, 0), Pt(0, r \div 2), Pt(c \div 20, r - 1),
               Pt((19 * c) \div 20, r - 1), Pt(c - 1, r \div 2), Pt((19 * c) \div 20, 0) >>,
            << Pt(0, 0), Pt(c - 1, 0), Pt(c - 1, r - 1), Pt(0, r - 1) >>)

\* a strip along the top of the frame whose area is pm thousandths of the frame's
StripContour(c, r, pm) ==
    LET vs == << Pt(0, 0), Pt(0, (r * pm) \div 1000),
                 Pt(c - 1, (r * pm) \div 1000), Pt(c - 1, 0) >>
    IN Contour((c * r * pm) \div 1000, vs, vs)

ScanContours ==
    LET c == ResizedCols(ScanImage)
        r == ResizedRows(ScanImage)
    IN ContoursOf(ScanImage) \cup { ShiftedQuadContour(c, r), BigBlobContour(c, r) }
       \cup { StripContour(c, r, pm) : pm \in {149, 150, 151} }

ScanInit ==
    /\ variant = "cv" /\ layoutDiv = 1 /\ docUrl = ScanImage
    /\ EditorClosed
    /\ sortIn = NULL /\ sortOut = NoSort
    /\ warpIn = NULL /\ warpOut = NoWarp
    /\ contoursIn \in SeqsUpTo(ScanContours, MaxScan) /\ bestOut = NoScan
    /\ BoardInit
    /\ RetryIdle
    /\ WaitIdle
    /\ RectClosed

ApplyScan ==
    /\ ~bestOut.done
    /\ bestOut' = [done |-> TRUE, value |-> DetectOnLoad(ScanImage, contoursIn, FALSE)]
    /\ UNCHANGED << appVars, editorVars, logVars, countVars, sortIn, sortOut, warpIn,
                    warpOut, contoursIn, boardVars, retryVars, waitVars, rectVars >>

ScanSpec == ScanInit /\ [][ApplyScan]_vars

(***************************************************************************)
(* The document board taken alone: the handlers of App.tsx on a board of   *)
(* up to MaxDocs columns and MaxItems uploaded images.  The awaits of      *)
(* handleRotateItem and handleBatchAutoCrop split them into a start and a  *)
(* settle step; everything else runs in one step.                          *)
(***************************************************************************)
BoardDocIds == 1..MaxDocs
BoardItemIds == 1..MaxItems
NullIndex == 0 - 1                        \* targetIndex = null
TargetIndexes == { NullIndex } \cup (0..MaxItems)

Rotated(url) == Append(url, 101)          \* canvas.toDataURL of the image turned by 90 degrees
Cropped(url) == Append(url, 102)          \* the url autoCropImage resolves with when it crops
Edited(url) == Append(url, 103)           \* the finalUrl of the editor

\* everything but the board
restVars == << appVars, editorVars, logVars, countVars, sortIn, sortOut, warpIn, warpOut,
               contoursIn, bestOut >>

\* Array.prototype.findIndex on the ids (0-based, -1 when there is none)
FindIndex(arr, id) ==
    IF \E i \in 1..Len(arr) : arr[i].id = id
    THEN (CHOOSE i \in 1..Len(arr) : arr[i].id = id /\ \A j \in 1..(i - 1) : arr[j].id # id) - 1
    ELSE 0 - 1

\* arr.splice(index, 1) and arr.splice(index, 0, x) on a copy
SpliceOut(arr, index) == SubSeq(arr, 1, index) \o SubSeq(arr, index + 2, Len(arr))
SpliceIn(arr, index, x) == SubSeq(arr, 1, index) \o << x >> \o SubSeq(arr, index + 1, Len(arr))

\* the items of every column
ItemsOf(docs) ==
    UNION { { docs[d].items[i] : i \in 1..Len(docs[d].items) } : d \in 1..Len(docs) }

\* prev.map(doc => doc.id === docId ? { ...doc, items: doc.items.map(f) } : doc)
MapItems(prev, docId, f) ==
    [d \in 1..Len(prev) |->
        IF prev[d].id = docId
        THEN [prev[d] EXCEPT !.items = [i \in 1..Len(prev[d].items) |-> f[prev[d].items[i]]]]
        ELSE prev[d]]

\* JSON.parse(JSON.stringify(documents)): a File serialises to {}
JsonCopy(docs) ==
    [d \in 1..Len(docs) |->
        [docs[d] EXCEPT !.items =
            [i \in 1..Len(docs[d].items) |-> [docs[d].items[i] EXCEPT !.originalFile = "{}"]]]]

\* the board is reachable by the pointer (the editor modal covers it)
BoardFree == editingItem = << >>

BoardClick ==
    /\ BoardFree
    /\ clicks < MaxClicks
    /\ clicks' = clicks + 1

HasItem(docId, itemId) ==
    \E d \in 1..Len(documents) :
        /\ documents[d].id = docId
        /\ \E i \in 1..Len(documents[d].items) : documents[d].items[i].id = itemId

handleAddDocument ==
    /\ BoardClick
    /\ Len(documents) < MaxDocs
    /\ documents' = Append(documents, NewDocument(Len(documents) + 1))
    /\ UNCHANGED << batchHistory, boardProcessing, tasks, rotations, editingItem, uploads,
                    restVars, retryVars, waitVars, rectVars >>

handleToggleColumnSelection(id, selected) ==
    /\ BoardClick
    /\ \E d \in 1..Len(documents) : documents[d].id = id /\ documents[d].selected # selected
    /\ documents' = [d \in 1..Len(documents) |->
                        IF documents[d].id = id
                        THEN [documents[d] EXCEPT !.selected = selected]
                        ELSE documents[d]]
    /\ UNCHANGED << batchHistory, boardProcessing, tasks, rotations, editingItem, uploads,
                    restVars, retryVars, waitVars, rectVars >>

handleAddItem(docId) ==
    /\ BoardFree
    /\ uploads < MaxItems
    /\ \E d \in 1..Len(documents) : documents[d].id = docId
    /\ uploads' = uploads + 1
    /\ documents' = [d \in 1..Len(documents) |->
                        IF documents[d].id = docId
                        THEN [documents[d] EXCEPT !.items = Append(@, NewItem(uploads + 1))]
                        ELSE documents[d]]
    /\ UNCHANGED << batchHistory, boardProcessing, tasks, rotations, editingItem, clicks,
                    restVars, retryVars, waitVars, rectVars >>

handleRemoveItem(docId, itemId) ==
    /\ BoardClick
    /\ HasItem(docId, itemId)
    /\ documents' = [d \in 1..Len(documents) |->
                        IF documents[d].id = docId
                        THEN [documents[d] EXCEPT
                                 !.items = SelectSeq(@, LAMBDA i : i.id # itemId)]
                        ELSE documents[d]]
    /\ UNCHANGED << batchHistory, boardProcessing, tasks, rotations, editingItem, uploads,
                    restVars, retryVars, waitVars, rectVars >>

handleEditItem(docId, itemId) ==
    /\ BoardClick
    /\ HasItem(docId, itemId)
    /\ LET doc == documents[FindIndex(documents, docId) + 1]
       IN editingItem' = << [docId |-> docId,
                             item |-> doc.items[FindIndex(doc.items, itemId) + 1]] >>
    /\ UNCHANGED << documents, batchHistory, boardProcessing, tasks, rotations, uploads,
                    restVars, retryVars, waitVars, rectVars >>

\* the editor's handleSave: onUpdate({ ...item, url: finalUrl }), then onClose()
handleUpdateItem ==
    /\ editingItem # << >>
    /\ LET updatedItem == [editingItem[1].item EXCEPT !.url = Edited(@)]
           Put == [i \in ItemsOf(documents) |-> IF i.id = updatedItem.id THEN updatedItem ELSE i]
       IN documents' = MapItems(documents, editingItem[1].docId, Put)
    /\ editingItem' = << >>
    /\ UNCHANGED << batchHistory, boardProcessing, tasks, rotations, uploads, clicks,
                    restVars, retryVars, waitVars, rectVars >>

\* the editor's onClose without a save
CloseEditor ==
    /\ editingItem # << >>
    /\ editingItem' = << >>
    /\ UNCHANGED << documents, batchHistory, boardProcessing, tasks, rotations, uploads,
                    clicks, restVars, retryVars, waitVars, rectVars >>

handleResetToOriginal(docId, itemId) ==
    /\ BoardClick
    /\ HasItem(docId, itemId)
    /\ LET Reset == [i \in ItemsOf(documents) |->
                        IF i.id # itemId THEN i
                        ELSE [i EXCEPT !.url = i.originalUrl, !.backupUrl = NULL]]
       IN documents' = MapItems(documents, docId, Reset)
    /\ UNCHANGED << batchHistory, boardProcessing, tasks, rotations, editingItem, uploads,
                    restVars, retryVars, waitVars, rectVars >>

handleRestoreItem(docId, itemId) ==
    /\ BoardClick
    /\ HasItem(docId, itemId)
    /\ LET Restore == [i \in ItemsOf(documents) |->
                          IF i.id # itemId \/ i.backupUrl = NULL THEN i
                          ELSE [i EXCEPT !.url = i.backupUrl, !.backupUrl = NULL]]
       IN documents' = MapItems(documents, docId, Restore)
    /\ UNCHANGED << batchHistory, boardProcessing, tasks, rotations, editingItem, uploads,
                    restVars, retryVars, waitVars, rectVars >>

\* handleRotateItem up to its await: the item is read from the rendered documents
handleRotateItem(docId, itemId) ==
    /\ BoardClick
    /\ HasItem(docId, itemId)
    /\ Len(rotations) < MaxRotations
    /\ LET doc == documents[FindIndex(documents, docId) + 1]
           it == doc.items[FindIndex(doc.items, itemId) + 1]
       IN /\ it.type = "image"
          /\ rotations' = Append(rotations, [docId |-> docId, itemId |-> itemId, item |-> it])
    /\ UNCHANGED << documents, batchHistory, boardProcessing, tasks, editingItem, uploads,
                    restVars, retryVars, waitVars, rectVars >>

\* handleRotateItem after img.onload, were the rotated image cached as the original
RotateSettleRecaching ==
    /\ rotations # << >>
    /\ \E hasCtx \in BOOLEAN :
          LET r == Head(rotations)
              updatedItem == [r.item EXCEPT !.url = Rotated(@), !.originalUrl = Rotated(r.item.url)]
              Put == [i \in ItemsOf(documents) |-> IF i.id = r.itemId THEN updatedItem ELSE i]
          IN documents' = IF hasCtx THEN MapItems(documents, r.docId, Put) ELSE documents
    /\ rotations' = Tail(rotations)
    /\ UNCHANGED << batchHistory, boardProcessing, tasks, editingItem, uploads, clicks,
                    restVars, retryVars, waitVars, rectVars >>

\* handleRotateItem after img.onload: the item read before the await is written back
RotateSettle ==
    /\ rotations # << >>
    /\ \E hasCtx \in BOOLEAN :
          LET r == Head(rotations)
              updatedItem == [r.item EXCEPT !.url = Rotated(@)]
              Put == [i \in ItemsOf(documents) |-> IF i.id = r.itemId THEN updatedItem ELSE i]
          IN documents' = IF hasCtx THEN MapItems(documents, r.docId, Put) ELSE documents
    /\ rotations' = Tail(rotations)
    /\ UNCHANGED << batchHistory, boardProcessing, tasks, editingItem, uploads, clicks,
                    restVars, retryVars, waitVars, rectVars >>

\* the updater of handleMoveItem, were the target list always copied from prevDocs
MoveItemCopyTarget(prevDocs, sourceDocId, itemId, targetDocId, targetIndex) ==
    LET sourceDocIndex == FindIndex(prevDocs, sourceDocId)
        targetDocIndex == FindIndex(prevDocs, targetDocId)
    IN IF sourceDocIndex = 0 - 1 \/ targetDocIndex = 0 - 1 THEN prevDocs
       ELSE LET itemIndex == FindIndex(prevDocs[sourceDocIndex + 1].items, itemId)
            IN IF itemIndex = 0 - 1 THEN prevDocs
               ELSE LET movedItem == prevDocs[sourceDocIndex + 1].items[itemIndex + 1]
                        sourceItems == SpliceOut(prevDocs[sourceDocIndex + 1].items, itemIndex)
                        newDocs == [prevDocs EXCEPT ![sourceDocIndex + 1].items = sourceItems]
                        targetItems == prevDocs[targetDocIndex + 1].items
                        placed == IF targetIndex = NullIndex \/ targetIndex >= Len(targetItems)
                                  THEN Append(targetItems, movedItem)
                                  ELSE SpliceIn(targetItems, targetIndex, movedItem)
                    IN [newDocs EXCEPT ![targetDocIndex + 1].items = placed]

\* the updater of handleMoveItem
MoveItem(prevDocs, sourceDocId, itemId, targetDocId, targetIndex) ==
    LET sourceDocIndex == FindIndex(prevDocs, sourceDocId)
        targetDocIndex == FindIndex(prevDocs, targetDocId)
    IN IF sourceDocIndex = 0 - 1 \/ targetDocIndex = 0 - 1 THEN prevDocs
       ELSE LET itemIndex == FindIndex(prevDocs[sourceDocIndex + 1].items, itemId)
            IN IF itemIndex = 0 - 1 THEN prevDocs
               ELSE LET movedItem == prevDocs[sourceDocIndex + 1].items[itemIndex + 1]
                        sourceItems == SpliceOut(prevDocs[sourceDocIndex + 1].items, itemIndex)
                        newDocs == [prevDocs EXCEPT ![sourceDocIndex + 1].items = sourceItems]
                        targetItems == IF sourceDocId = targetDocId THEN sourceItems
                                       ELSE newDocs[targetDocIndex + 1].items
                        placed == IF targetIndex = NullIndex \/ targetIndex >= Len(targetItems)
                                  THEN Append(targetItems, movedItem)
                                  ELSE SpliceIn(targetItems, targetIndex, movedItem)
                    IN [newDocs EXCEPT ![targetDocIndex + 1].items = placed]

handleMoveItem(sourceDocId, itemId, targetDocId, targetIndex) ==
    /\ BoardClick
    /\ documents' = MoveItem(documents, sourceDocId, itemId, targetDocId, targetIndex)
    /\ UNCHANGED << batchHistory, boardProcessing, tasks, rotations, editingItem, uploads,
                    restVars, retryVars, waitVars, rectVars >>

\* the tasks of handleBatchAutoCrop: the image items of the selected columns
RECURSIVE ItemTasks(_, _)
ItemTasks(docId, its) ==
    IF its = << >> THEN << >>
    ELSE (IF Head(its).type = "image"
          THEN << [docId |-> docId, itemId |-> Head(its).id, url |-> Head(its).url] >>
          ELSE << >>) \o ItemTasks(docId, Tail(its))

RECURSIVE BatchTasks(_)
BatchTasks(docs) ==
    IF docs = << >> THEN << >>
    ELSE (IF Head(docs).selected THEN ItemTasks(Head(docs).id, Head(docs).items) ELSE << >>)
         \o BatchTasks(Tail(docs))

\* the setDocuments of handleBatchAutoCrop that marks the items of the selected columns
MarkProcessing(prev) ==
    [d \in 1..Len(prev) |->
        IF ~prev[d].selected THEN prev[d]
        ELSE [prev[d] EXCEPT !.items =
                 [i \in 1..Len(prev[d].items) |->
                     IF prev[d].items[i].type = "image"
                     THEN [prev[d].items[i] EXCEPT !.processing = TRUE,
                                                   !.backupUrl = prev[d].items[i].url]
                     ELSE prev[d].items[i]]]]

\* handleBatchAutoCrop up to its first await (with no task it runs to its end)
handleBatchAutoCrop ==
    /\ BoardClick
    /\ ~boardProcessing
    /\ \E d \in 1..Len(documents) : documents[d].selected
    /\ batchHistory' = JsonCopy(documents)
    /\ tasks' = BatchTasks(documents)
    /\ documents' = MarkProcessing(documents)
    /\ boardProcessing' = (BatchTasks(documents) # << >>)
    /\ UNCHANGED << rotations, editingItem, uploads, restVars, retryVars, waitVars, rectVars >>

\* autoCropImage settles for the first pending task; after the last task the
\* finally block runs
BatchTaskSettle ==
    /\ tasks # << >>
    /\ \E outcome \in { "cropped", "same", "rejected" } :
          LET task == Head(tasks)
              newUrl == IF outcome = "cropped" THEN Cropped(task.url) ELSE task.url
              Done == [i \in ItemsOf(documents) |->
                          IF i.id # task.itemId THEN i
                          ELSE IF outcome = "rejected" THEN [i EXCEPT !.processing = FALSE]
                          ELSE [i EXCEPT !.url = newUrl, !.processing = FALSE]]
          IN documents' = MapItems(documents, task.docId, Done)
    /\ tasks' = Tail(tasks)
    /\ boardProcessing' = (Tail(tasks) # << >>)
    /\ UNCHANGED << batchHistory, rotations, editingItem, uploads, clicks, restVars, retryVars, waitVars, rectVars >>

handleUndoBatch ==
    /\ BoardClick
    /\ IF batchHistory # NULL
       THEN documents' = batchHistory /\ batchHistory' = NULL
       ELSE UNCHANGED << documents, batchHistory >>
    /\ UNCHANGED << boardProcessing, tasks, rotations, editingItem, uploads, restVars, retryVars, waitVars, rectVars >>

BoardStart ==
    /\ variant = "cv" /\ layoutDiv = 1 /\ docUrl \in Uploads
    /\ EditorClosed
    /\ sortIn = NULL /\ sortOut = NoSort
    /\ warpIn = NULL /\ warpOut = NoWarp
    /\ contoursIn = << >> /\ bestOut = NoScan
    /\ BoardInit
    /\ RetryIdle
    /\ WaitIdle
    /\ RectClosed

BoardNext ==
    \/ handleAddDocument
    \/ \E id \in BoardDocIds, selected \in BOOLEAN : handleToggleColumnSelection(id, selected)
    \/ \E docId \in BoardDocIds : handleAddItem(docId)
    \/ \E docId \in BoardDocIds, itemId \in BoardItemIds : handleRemoveItem(docId, itemId)
    \/ \E docId \in BoardDocIds, itemId \in BoardItemIds : handleEditItem(docId, itemId)
    \/ handleUpdateItem
    \/ CloseEditor
    \/ \E docId \in BoardDocIds, itemId \in BoardItemIds : handleResetToOriginal(docId, itemId)
    \/ \E docId \in BoardDocIds, itemId \in BoardItemIds : handleRestoreItem(docId, itemId)
    \/ \E docId \in BoardDocIds, itemId \in BoardItemIds : handleRotateItem(docId, itemId)
    \/ RotateSettle
    \/ \E s \in BoardDocIds, itemId \in BoardItemIds, t \in BoardDocIds,
          targetIndex \in TargetIndexes : handleMoveItem(s, itemId, t, targetIndex)
    \/ handleBatchAutoCrop
    \/ BatchTaskSettle
    \/ handleUndoBatch

BoardSpec == BoardStart /\ [][BoardNext]_vars

(***************************************************************************)
(* callWithRetry of services/geminiService.ts taken alone.  A delay is     *)
(* kept in units of 1 / DelayUnit ms, which holds 5000 * 2.5^k exactly for *)
(* every k the function reaches.  An error is its status, its code and the *)
(* text of its message and stack; kind records what the failure was.       *)
(***************************************************************************)
RetryErrors ==
    { [kind |-> "rate", status |-> 429, code |-> 0, text |-> "Too Many Requests"],
      [kind |-> "rate", status |-> 0, code |-> 429, text |-> "RESOURCE_EXHAUSTED"],
      [kind |-> "quota", status |-> 0, code |-> 0, text |-> "Quota exceeded"],
      [kind |-> "overload", status |-> 503, code |-> 0, text |-> "Service Unavailable"],
      [kind |-> "other", status |-> 500, code |-> 0, text |-> "Internal error"],
      [kind |-> "other", status |-> 0, code |-> 0, text |-> "Failed to fetch"],
      [kind |-> "other", status |-> 0, code |-> 0,
       text |-> "TypeError: x is undefined at index.js:1:15031"] }

\* errString.includes(needle), errString being the lower-cased JSON of every
\* own property of the error (status, code, message, stack)
Includes(error, needle) ==
    \/ needle = "429" /\ (error.status = 429 \/ error.code = 429)
    \/ needle = "503" /\ error.status = 503
    \/ needle = "503" /\ error.text = "TypeError: x is undefined at index.js:1:15031"
    \/ needle = "too many requests" /\ error.text = "Too Many Requests"
    \/ needle = "quota" /\ error.text = "Quota exceeded"

isRateLimit(error) ==
    \/ error.status = 429
    \/ error.code = 429
    \/ Includes(error, "429")
    \/ Includes(error, "quota")
    \/ Includes(error, "resource exhausted")
    \/ Includes(error, "too many requests")

isServerOverload(error) == error.status = 503 \/ Includes(error, "503")

\* removeBackground and the like call callWithRetry(operation): retries = 5, delay = 5000
callWithRetry ==
    /\ cwPc = "idle"
    /\ cwPc' = "call"
    /\ cwRetries' = DefaultRetries
    /\ cwDelay' = DefaultDelay * DelayUnit
    /\ cwAttempts' = 1
    /\ UNCHANGED << cwErrors, cwWaits, cwResult, restVars, boardVars, waitVars, rectVars >>

\* await operation() resolves
OperationResolves ==
    /\ cwPc = "call"
    /\ cwPc' = "returned"
    /\ cwResult' = ValueResult
    /\ UNCHANGED << cwRetries, cwDelay, cwAttempts, cwErrors, cwWaits, restVars, boardVars,
                    waitVars, rectVars >>

\* the catch block, whether it retries or rethrows
CatchError(error, retry) ==
    /\ cwErrors' = Append(cwErrors, error)
    /\ IF retry
       THEN /\ cwPc' = "wait"
            /\ cwWaits' = Append(cwWaits, cwDelay)
            /\ UNCHANGED cwResult
       ELSE /\ cwPc' = "thrown"
            /\ cwResult' = error
            /\ UNCHANGED cwWaits
    /\ UNCHANGED << cwRetries, cwDelay, cwAttempts, restVars, boardVars, waitVars, rectVars >>

\* await operation() rejects
OperationRejects ==
    /\ cwPc = "call"
    /\ \E error \in RetryErrors :
          CatchError(error, cwRetries > 0 /\ (isRateLimit(error) \/ isServerOverload(error)))

\* the timer of the catch block fires: callWithRetry(operation, retries - 1, delay * 2.5)
RetryTimer ==
    /\ cwPc = "wait"
    /\ cwPc' = "call"
    /\ cwRetries' = cwRetries - 1
    /\ cwDelay' = (cwDelay * 5) \div 2
    /\ cwAttempts' = cwAttempts + 1
    /\ UNCHANGED << cwErrors, cwWaits, cwResult, restVars, boardVars, waitVars, rectVars >>

RetryInit ==
    /\ variant = "cv" /\ layoutDiv = 1 /\ docUrl \in Uploads
    /\ EditorClosed
    /\ sortIn = NULL /\ sortOut = NoSort
    /\ warpIn = NULL /\ warpOut = NoWarp
    /\ contoursIn = << >> /\ bestOut = NoScan
    /\ BoardInit
    /\ RetryIdle
    /\ WaitIdle
    /\ RectClosed

RetryNext ==
    \/ callWithRetry
    \/ OperationResolves
    \/ OperationRejects
    \/ RetryTimer

RetrySpec == RetryInit /\ [][RetryNext]_vars

(***************************************************************************)
(* waitForCV of services/cvService.ts taken alone, while the OpenCV script *)
(* loads: window.cv is absent, then defined without imread and Mat, then   *)
(* complete.  The timers of waitForCV fire (weak fairness of its steps).   *)
(***************************************************************************)
\* the script of index.html defines window.cv, then its runtime fills it in
ScriptLoads ==
    /\ cvState # "ready"
    /\ cvState' = IF cvState = "absent" THEN "partial" ELSE "ready"
    /\ UNCHANGED << wcPc, wcRetries, wcChecks, wcWaited, restVars, boardVars, retryVars, rectVars >>

\* a caller awaits waitForCV(): retries = 100
waitForCV ==
    /\ wcPc = "idle"
    /\ wcPc' = "check"
    /\ wcRetries' = Retries
    /\ UNCHANGED << cvState, wcChecks, wcWaited, restVars, boardVars, retryVars, rectVars >>

\* the two tests at the head of waitForCV, were the last retry not taken
waitForCVCheckEarly ==
    /\ wcPc = "check"
    /\ wcChecks' = wcChecks + 1
    /\ wcPc' = IF cvState = "ready" THEN "resolved"
               ELSE IF wcRetries <= 1 THEN "rejected"
               ELSE "sleep"
    /\ UNCHANGED << cvState, wcRetries, wcWaited, restVars, boardVars, retryVars, rectVars >>

\* the two tests at the head of waitForCV
waitForCVCheck ==
    /\ wcPc = "check"
    /\ wcChecks' = wcChecks + 1
    /\ wcPc' = IF cvState = "ready" THEN "resolved"
               ELSE IF wcRetries <= 0 THEN "rejected"
               ELSE "sleep"
    /\ UNCHANGED << cvState, wcRetries, wcWaited, restVars, boardVars, retryVars, rectVars >>

\* the timer fires: return waitForCV(retries - 1)
waitForCVTimer ==
    /\ wcPc = "sleep"
    /\ wcPc' = "check"
    /\ wcRetries' = wcRetries - 1
    /\ wcWaited' = wcWaited + RetryEveryMs
    /\ UNCHANGED << cvState, wcChecks, restVars, boardVars, retryVars, rectVars >>

WaitInit ==
    /\ variant = "cv" /\ layoutDiv = 1 /\ docUrl \in Uploads
    /\ EditorClosed
    /\ sortIn = NULL /\ sortOut = NoSort
    /\ warpIn = NULL /\ warpOut = NoWarp
    /\ contoursIn = << >> /\ bestOut = NoScan
    /\ BoardInit
    /\ RetryIdle
    /\ WaitIdle
    /\ RectClosed

WaitNext ==
    \/ ScriptLoads
    \/ waitForCV
    \/ waitForCVCheck
    \/ waitForCVTimer

WaitSpec ==
    /\ WaitInit
    /\ [][WaitNext]_vars
    /\ WF_vars(waitForCV) /\ WF_vars(waitForCVCheck) /\ WF_vars(waitForCVTimer)

(***************************************************************************)
(* The rectangle editor, components/EditorModal.tsx, taken alone: its      *)
(* history, its rectangular crop, its eraser strokes and its AI actions.   *)
(* The names history, currentIndex, isProcessing and activeTool of the     *)
(* component are rectHistory, rectIndex, rectProcessing and rectTool here. *)
(* A crop gesture and an eraser stroke are one step each; the zoom, which  *)
(* no handler reads, is left out.  An AI action keeps the history and      *)
(* currentIndex of the render it was started in.                           *)
(***************************************************************************)
\* the crops a gesture can leave (handleWindowMouseUp keeps w, h >= 5, normalized)
CropRects ==
    { [x |-> 100, y |-> 100, w |-> 500, h |-> 400],
      [x |-> 10, y |-> 10, w |-> 8, h |-> 300] }

\* const currentImage = history[currentIndex] || item.url
RectCurrentImage ==
    IF rectIndex >= 0 /\ rectIndex < Len(rectHistory) THEN rectHistory[rectIndex + 1] ELSE docUrl

\* pushToHistory keeping every entry
PushToHistoryKeepTail(hist, idx, newUrl) ==
    LET newHistory == Append(hist, newUrl)
    IN [history |-> newHistory, currentIndex |-> Len(newHistory) - 1]

\* pushToHistory on the history and currentIndex of a render
PushToHistory(hist, idx, newUrl) ==
    LET newHistory == Append(SubSeq(hist, 1, idx + 1), newUrl)
    IN [history |-> newHistory, currentIndex |-> Len(newHistory) - 1]

\* the controls answer: the modal is mounted and the processing overlay is not shown
RectFree == rectOpen /\ ~rectProcessing

\* App.handleEditItem, the mount of the modal and its open effect
OpenRectEditor ==
    /\ ~rectOpen
    /\ rectOpen' = TRUE
    /\ rectHistory' = << docUrl >>
    /\ rectIndex' = 0
    /\ crop' = << >>
    /\ maskLines' = 0
    /\ rectTool' = "none"
    /\ pushes' = 0
    /\ UNCHANGED << rectProcessing, aiCalls, restVars, boardVars, retryVars, waitVars >>

\* the Magic Eraser button
ToggleEraser ==
    /\ RectFree
    /\ rectTool' = IF rectTool = "eraser" THEN "none" ELSE "eraser"
    /\ UNCHANGED << rectOpen, rectHistory, rectIndex, rectProcessing, crop, maskLines, aiCalls,
                    pushes, restVars, boardVars, retryVars, waitVars >>

\* the Manual Crop button
ToggleRectCrop ==
    /\ RectFree
    /\ rectTool' = IF rectTool = "crop" THEN "none" ELSE "crop"
    /\ crop' = << >>
    /\ UNCHANGED << rectOpen, rectHistory, rectIndex, rectProcessing, maskLines, aiCalls,
                    pushes, restVars, boardVars, retryVars, waitVars >>

\* a crop gesture, from handleMouseDown to handleWindowMouseUp
DrawCrop(r) ==
    /\ RectFree
    /\ rectTool = "crop"
    /\ crop' = << r >>
    /\ UNCHANGED << rectOpen, rectHistory, rectIndex, rectProcessing, rectTool, maskLines,
                    aiCalls, pushes, restVars, boardVars, retryVars, waitVars >>

\* an eraser stroke, from handleMouseDown to handleWindowMouseUp
DrawMask ==
    /\ RectFree
    /\ rectTool = "eraser"
    /\ maskLines < MaxLines
    /\ maskLines' = maskLines + 1
    /\ UNCHANGED << rectOpen, rectHistory, rectIndex, rectProcessing, rectTool, crop,
                    aiCalls, pushes, restVars, boardVars, retryVars, waitVars >>

handleApplyRectCrop ==
    /\ RectFree
    /\ rectTool = "crop"
    /\ crop # << >>
    /\ pushes < MaxPushes
    /\ \E hasCtx \in BOOLEAN :
          LET norm == crop[1]
              pushed == PushToHistory(rectHistory, rectIndex, Image(norm.w, norm.h, "crop"))
          IN IF norm.w < 10 \/ norm.h < 10
             THEN UNCHANGED << rectHistory, rectIndex, crop, maskLines, pushes >>
             ELSE IF hasCtx
             THEN /\ rectHistory' = pushed.history
                  /\ rectIndex' = pushed.currentIndex
                  /\ maskLines' = 0
                  /\ crop' = << >>
                  /\ pushes' = pushes + 1
             ELSE /\ crop' = << >>
                  /\ UNCHANGED << rectHistory, rectIndex, maskLines, pushes >>
    /\ UNCHANGED << rectOpen, rectProcessing, rectTool, aiCalls, restVars, boardVars,
                    retryVars, waitVars >>

\* handleAiAction up to its await (the button sets activeTool to none first)
handleAiAction(action) ==
    /\ RectFree
    /\ rectTool = "none"
    /\ pushes < MaxPushes
    /\ rectProcessing' = TRUE
    /\ aiCalls' = Append(aiCalls, [kind |-> action, history |-> rectHistory,
                                   currentIndex |-> rectIndex, image |-> RectCurrentImage])
    /\ UNCHANGED << rectOpen, rectHistory, rectIndex, rectTool, crop, maskLines, pushes,
                    restVars, boardVars, retryVars, waitVars >>

\* handleApplyEraser up to its awaits
handleApplyEraser ==
    /\ RectFree
    /\ rectTool = "eraser"
    /\ maskLines > 0
    /\ pushes < MaxPushes
    /\ rectProcessing' = TRUE
    /\ aiCalls' = Append(aiCalls, [kind |-> "eraser", history |-> rectHistory,
                                   currentIndex |-> rectIndex, image |-> RectCurrentImage])
    /\ UNCHANGED << rectOpen, rectHistory, rectIndex, rectTool, crop, maskLines, pushes,
                    restVars, boardVars, retryVars, waitVars >>

\* removeBackground, enhanceImage or magicEraser settles: pushToHistory of the
\* render the action was started in, or the alert; then the finally block
AiSettle ==
    /\ aiCalls # << >>
    /\ \E ok \in BOOLEAN :
          LET call == Head(aiCalls)
              pushed == PushToHistory(call.history, call.currentIndex,
                                      Image(call.image.w, call.image.h, call.kind))
          IN IF ok
             THEN /\ rectHistory' = pushed.history
                  /\ rectIndex' = pushed.currentIndex
                  /\ maskLines' = 0
                  /\ crop' = << >>
                  /\ pushes' = pushes + 1
                  /\ rectTool' = IF call.kind = "eraser" THEN "none" ELSE rectTool
             ELSE UNCHANGED << rectHistory, rectIndex, maskLines, crop, pushes, rectTool >>
    /\ aiCalls' = Tail(aiCalls)
    /\ rectProcessing' = FALSE
    /\ UNCHANGED << rectOpen, restVars, boardVars, retryVars, waitVars >>

\* the undo button (disabled while currentIndex <= 0)
handleRectUndo ==
    /\ RectFree
    /\ rectIndex > 0
    /\ IF rectTool = "eraser" /\ maskLines > 0
       THEN /\ maskLines' = maskLines - 1
            /\ UNCHANGED << rectIndex, crop >>
       ELSE /\ rectIndex' = rectIndex - 1
            /\ crop' = << >>
            /\ maskLines' = 0
    /\ UNCHANGED << rectOpen, rectHistory, rectProcessing, rectTool, aiCalls, pushes,
                    restVars, boardVars, retryVars, waitVars >>

\* the redo button (disabled while currentIndex >= history.length - 1)
handleRectRedo ==
    /\ RectFree
    /\ rectIndex < Len(rectHistory) - 1
    /\ rectIndex' = rectIndex + 1
    /\ crop' = << >>
    /\ maskLines' = 0
    /\ UNCHANGED << rectOpen, rectHistory, rectProcessing, rectTool, aiCalls, pushes,
                    restVars, boardVars, retryVars, waitVars >>

\* the reset button (disabled while currentIndex = 0 and history.length = 1)
handleRectReset ==
    /\ RectFree
    /\ ~(rectIndex = 0 /\ Len(rectHistory) = 1)
    /\ IF Len(rectHistory) > 0
       THEN /\ rectIndex' = 0
            /\ crop' = << >>
            /\ maskLines' = 0
            /\ rectTool' = "none"
       ELSE UNCHANGED << rectIndex, crop, maskLines, rectTool >>
    /\ UNCHANGED << rectOpen, rectHistory, rectProcessing, aiCalls, pushes,
                    restVars, boardVars, retryVars, waitVars >>

\* onClose (the X button, or handleSave): App unmounts the modal
CloseRectEditor ==
    /\ RectFree
    /\ rectOpen' = FALSE
    /\ rectHistory' = << >>
    /\ rectIndex' = 0 - 1
    /\ rectTool' = "crop"
    /\ crop' = << >>
    /\ maskLines' = 0
    /\ pushes' = 0
    /\ UNCHANGED << rectProcessing, aiCalls, restVars, boardVars, retryVars, waitVars >>

RectInit ==
    /\ variant = "cv" /\ layoutDiv = 1 /\ docUrl \in Uploads
    /\ EditorClosed
    /\ sortIn = NULL /\ sortOut = NoSort
    /\ warpIn = NULL /\ warpOut = NoWarp
    /\ contoursIn = << >> /\ bestOut = NoScan
    /\ BoardInit
    /\ RetryIdle
    /\ WaitIdle
    /\ RectClosed

RectNext ==
    \/ OpenRectEditor
    \/ ToggleEraser
    \/ ToggleRectCrop
    \/ \E r \in CropRects : DrawCrop(r)
    \/ DrawMask
    \/ handleApplyRectCrop
    \/ \E action \in { "bg", "enhance" } : handleAiAction(action)
    \/ handleApplyEraser
    \/ AiSettle
    \/ handleRectUndo
    \/ handleRectRedo
    \/ handleRectReset
    \/ CloseRectEditor

RectSpec == RectInit /\ [][RectNext]_vars

(***************************************************************************)
(* Properties.  Geometry used to state them.                               *)
(***************************************************************************)
\* twice the signed area of the triangle a, b, c (positive when a, b, c turn
\* clockwise on the screen, whose y axis points down)
Cross(a, b, c) == (b.x - a.x) * (c.y - a.y) - (b.y - a.y) * (c.x - a.x)

Triples == { t \in (1..4) \X (1..4) \X (1..4) : t[1] < t[2] /\ t[2] < t[3] }

DistinctPoints(P) == \A i, j \in 1..4 : i # j => P[i] # P[j]
NoThreeCollinear(P) == \A t \in Triples : Cross(P[t[1]], P[t[2]], P[t[3]]) # 0

\* q lies in the closed triangle a, b, c
InTriangle(q, a, b, c) ==
    \/ Cross(a, b, q) >= 0 /\ Cross(b, c, q) >= 0 /\ Cross(c, a, q) >= 0
    \/ Cross(a, b, q) <= 0 /\ Cross(b, c, q) <= 0 /\ Cross(c, a, q) <= 0

\* the four points are the vertices of a convex quadrilateral, in whatever order
ConvexPosition(P) ==
    /\ DistinctPoints(P)
    /\ NoThreeCollinear(P)
    /\ \A i \in 1..4 : \A t \in Triples :
          i \notin {t[1], t[2], t[3]} => ~InTriangle(P[i], P[t[1]], P[t[2]], P[t[3]])

IsPermutationOf(out, in) ==
    \E f \in [1..4 -> 1..4] :
        /\ \A i, j \in 1..4 : i # j => f[i] # f[j]
        /\ \A i \in 1..4 : out[i] = in[f[i]]

StartsAtMinSum(out, in) == \A i \in 1..4 : out[1].x + out[1].y <= in[i].x + in[i].y

Clockwise(out) == \A i \in 1..4 : Cross(out[i], out[(i % 4) + 1], out[((i + 1) % 4) + 1]) > 0

\* three collinear points or duplicate points
Degenerate(P) == \E t \in Triples : Cross(P[t[1]], P[t[2]], P[t[3]]) = 0

InBounds(pts, img) ==
    \A i \in 1..4 : /\ 0 <= pts[i].x /\ pts[i].x <= img.w * Q
                    /\ 0 <= pts[i].y /\ pts[i].y <= img.h * Q

\* C1: whenever the corner set is non-null, each of its four points lies within
\* [0, width] x [0, height] of the image being edited.  The minAreaRect fallback of
\* the detector violates it.
C1_ClampInvariant == (isOpen /\ points # NULL) => InBounds(points, CurrentImage)

\* C2: for four points in convex position, in any input order, the corner sort
\* returns a permutation of them that starts at a point of minimal x + y and turns
\* clockwise.  A sheet turned 45 degrees violates it.
C2_CanonicalOrdering ==
    (sortOut # NoSort /\ ConvexPosition(sortIn)) =>
        /\ IsPermutationOf(sortOut.once, sortIn)
        /\ StartsAtMinSum(sortOut.once, sortIn)
        /\ Clockwise(sortOut.once)

\* C3: for four points in convex position, sorting the sorted corners again gives
\* the same sequence.  The duplicated corner of C2 violates it.
C3_SortIdempotent ==
    (sortOut # NoSort /\ ConvexPosition(sortIn)) => sortOut.twice = sortOut.once

\* C4: a warp of a corner set with three collinear or duplicate points ends in a
\* failure and returns no raster, in the canvas revision and in the OpenCV revision.
\* Both revisions return a raster.
C4_DegenerateRejected ==
    (warpOut.done /\ Degenerate(warpIn)) =>
        /\ warpOut.canvas.src \notin {"warp0", "warp1", "warp2"}
        /\ warpOut.cv.kind = "rejected"

\* the step in which a pending handleSave call ends with a failed warp
WarpFails == Len(saveCalls') < Len(saveCalls) /\ lastSave' = "warpFailed"

\* C5: the step in which the warp of handleSave fails calls no onUpdate, leaves the
\* document, the modal, the history and the corner set as they were, and resets
\* isProcessing.
C5_FailedWarpLeavesState ==
    [][WarpFails => /\ onUpdateCalls' = onUpdateCalls
                    /\ docUrl' = docUrl
                    /\ isOpen' = isOpen
                    /\ history' = history /\ currentIndex' = currentIndex
                    /\ points' = points
                    /\ isProcessing' = FALSE]_vars

C5_Witness ==
    /\ lastSave = "warpFailed" /\ onUpdateCalls = 0
    /\ isOpen /\ ~isProcessing /\ points # NULL /\ docUrl = item

\* C6: no detectDocumentCorners call ends in a rejected promise.  A call made when
\* OpenCV never loads does.
C6_DetectorNeverRejects == lastDetect.kind # "rejected"

\* the step in which a detectDocumentCorners call of the mounted editor settles
DetectionSettles == isOpen /\ isOpen' /\ Len(detections') < Len(detections)

\* C7: when a detection settles, whatever its outcome, the editor is left with
\* isProcessing = false and a corner set of four points: the detected corners if
\* there are any, the default inset rectangle otherwise.  A rejected call (C6) leaves
\* isProcessing = true and the corner set null.
C7_DetectionNeverBlocks ==
    [][DetectionSettles =>
          /\ ~isProcessing'
          /\ points' # NULL /\ Len(points') = 4
          /\ points' = IF lastDetect'.value # NULL THEN ToQ(lastDetect'.value)
                       ELSE DefaultPoints(NaturalWidth, NaturalHeight)]_vars

\* the pointer displacement since the press times the natural / rendered scale
PointerDelta(p) == Pt(TimesScale(p.x - dragStartPos.x, Scale),
                      TimesScale(p.y - dragStartPos.y, Scale))

\* the drag-start value q translated by d and clamped to [0, w] x [0, h]
Translated(q, d) == Pt(Max(0, Min(NaturalWidth * Q, q.x + d.x)),
                       Max(0, Min(NaturalHeight * Q, q.y + d.y)))

\* a step of one drag gesture that is no completion of a detection: it neither
\* releases nor presses a button
DragContinues ==
    /\ isOpen /\ isDragging /\ isDragging'
    /\ chords' = chords /\ detections' = detections

\* a move event of a drag gesture that changes the corner set
MoveStep == DragContinues /\ points # NULL /\ initialPoints # NULL /\ points' # points

\* C8: a move event of a corner drag sets corner i to its drag-start value plus
\* delta, clamped to the image, and the other three corners to their drag-start
\* values.
C8_CornerDrag ==
    [][(MoveStep /\ dragInfo.type = "corner") =>
          \E p \in Pointers :
              \A j \in 0..3 :
                  points'[j + 1] = IF j = dragInfo.index
                                   THEN Translated(initialPoints[j + 1], PointerDelta(p))
                                   ELSE initialPoints[j + 1]]_vars

\* on a 1000 x 800 image shown at scale 1, TL dragged by (+50, +50) from the default corners
C8_Witness ==
    /\ isDragging /\ dragInfo = [index |-> 0, type |-> "corner"]
    /\ layoutDiv = 1 /\ zoom = 5 /\ loadedImg = Image(1000, 800, "upload")
    /\ initialPoints = DefaultPoints(1000, 800)
    /\ points = << Pt(150 * Q, 130 * Q), Pt(900 * Q, 80 * Q),
                   Pt(900 * Q, 720 * Q), Pt(100 * Q, 720 * Q) >>

\* C9: a move event of an edge drag sets corners i and (i + 1) mod 4 to their
\* drag-start values plus the same delta, each clamped on its own, and the other two
\* corners to their drag-start values.
C9_EdgeDrag ==
    [][(MoveStep /\ dragInfo.type = "edge") =>
          \E p \in Pointers :
              \A j \in 0..3 :
                  points'[j + 1] = IF j \in {dragInfo.index, (dragInfo.index + 1) % 4}
                                   THEN Translated(initialPoints[j + 1], PointerDelta(p))
                                   ELSE initialPoints[j + 1]]_vars

\* an edge drag in which the clamp stopped one corner of the edge earlier than the other
C9_Witness ==
    /\ isDragging /\ dragInfo.type = "edge" /\ points # NULL /\ initialPoints # NULL
    /\ LET a == dragInfo.index + 1
           b == ((dragInfo.index + 1) % 4) + 1
       IN /\ points[a] # initialPoints[a] /\ points[b] # initialPoints[b]
          /\ points[a].x - initialPoints[a].x # points[b].x - initialPoints[b].x
          /\ \A j \in 1..4 : j \notin {a, b} => points[j] = initialPoints[j]

\* the corner set a move event at p gives, from the press snapshot alone
FromSnapshot(p) ==
    [j \in 1..4 |->
        IF \/ j - 1 = dragInfo.index
           \/ dragInfo.type = "edge" /\ j - 1 = (dragInfo.index + 1) % 4
        THEN Translated(initialPoints[j], PointerDelta(p))
        ELSE initialPoints[j]]

\* C10: during a drag no step changes the snapshot taken at the press, and the
\* corner set after a move event is a function of that snapshot, the press position
\* and the pointer position only, whatever the corner set was before the event.
C10_DragFromSnapshot ==
    [][(DragContinues /\ points # NULL /\ initialPoints # NULL) =>
          /\ initialPoints' = initialPoints
          /\ dragStartPos' = dragStartPos
          /\ dragInfo' = dragInfo
          /\ points' = points \/ \E p \in Pointers : points' = FromSnapshot(p)]_vars

\* a drag at a scale other than 1 whose corner set has left the snapshot
C10_Witness ==
    /\ isDragging /\ layoutDiv = 2 /\ points # NULL /\ initialPoints # NULL
    /\ points # initialPoints
    /\ \E p \in Pointers : p # dragStartPos /\ points = FromSnapshot(p)

\* the step in which the corner set is created without detected corners: by
\* handleImageLoad (canvas revision) or by the fallback of handlePerformAutoDetection
DefaultStep ==
    /\ isOpen /\ isOpen' /\ points = NULL /\ points' # NULL
    /\ variant = "canvas" \/ lastDetect'.value = NULL

\* C11: the default corner set of an image element of natural size w x h is
\* TL = (0.1w, 0.1h), TR = (0.9w, 0.1h), BR = (0.9w, 0.9h), BL = (0.1w, 0.9h), in
\* that order.
C11_DefaultInit ==
    [][DefaultStep =>
          LET w == loadedImg'.w * Q
              h == loadedImg'.h * Q
          IN /\ Len(points') = 4
             /\ points'[1].x * 10 = w /\ points'[1].y * 10 = h
             /\ points'[2].x * 10 = 9 * w /\ points'[2].y * 10 = h
             /\ points'[3].x * 10 = 9 * w /\ points'[3].y * 10 = 9 * h
             /\ points'[4].x * 10 = w /\ points'[4].y * 10 = 9 * h]_vars

\* a 1000 x 800 image with the default corners (100,80), (900,80), (900,720), (100,720)
C11_Witness ==
    /\ isOpen /\ loadedImg = Image(1000, 800, "upload") /\ initialPoints = NULL
    /\ variant = "canvas" \/ (lastDetect.kind = "resolved" /\ lastDetect.value = NULL)
    /\ points = << Pt(100 * Q, 80 * Q), Pt(900 * Q, 80 * Q),
                   Pt(900 * Q, 720 * Q), Pt(100 * Q, 720 * Q) >>

\* the squared distance of two points, and n = the whole pixels of a length whose
\* square (in Q units) is sq
DistSq(a, b) == (a.x - b.x) * (a.x - b.x) + (a.y - b.y) * (a.y - b.y)
WholePixels(n, sq) == (n * Q) * (n * Q) <= sq /\ sq < ((n + 1) * Q) * ((n + 1) * Q)

\* the rasters a settled warp returned
WarpRasters ==
    (IF warpOut.canvas.src \in {"warp0", "warp1", "warp2"} THEN {warpOut.canvas} ELSE {})
    \cup (IF warpOut.cv.kind = "resolved" THEN {warpOut.cv.value} ELSE {})

\* C12: the raster a warp returns is max(|TR-TL|, |BR-BL|) pixels wide and
\* max(|BL-TL|, |BR-TR|) pixels high; for TL = (0,0), TR = (W,0), BR = (W,H),
\* BL = (0,H) it is exactly W x H.
C12_TargetSize ==
    warpOut.done =>
        \A r \in WarpRasters :
            /\ WholePixels(r.w, Max(DistSq(warpIn[2], warpIn[1]), DistSq(warpIn[3], warpIn[4])))
            /\ WholePixels(r.h, Max(DistSq(warpIn[4], warpIn[1]), DistSq(warpIn[3], warpIn[2])))
            /\ (/\ warpIn[1] = Pt(0, 0) /\ warpIn[2] = Pt(warpIn[3].x, 0)
                /\ warpIn[4] = Pt(0, warpIn[3].y))
               => (r.w * Q = warpIn[3].x /\ r.h * Q = warpIn[3].y)

\* the rectangle (0,0), (100,0), (100,50), (0,50) warped by both revisions to 100 x 50
C12_Witness ==
    /\ warpOut.done
    /\ warpIn = << Pt(0, 0), Pt(100 * Q, 0), Pt(100 * Q, 50 * Q), Pt(0, 50 * Q) >>
    /\ warpOut.canvas = Image(100, 50, "warp2")
    /\ warpOut.cv.kind = "resolved" /\ warpOut.cv.value.w = 100 /\ warpOut.cv.value.h = 50


\* a press on the wrapper that reaches the hit test of handleMouseDown
HitTestStep ==
    /\ gestures' = gestures + 1
    /\ ~isProcessing /\ points # NULL /\ ~isSpacePressed /\ activeTool = "crop"

\* the handles within the hit radius of a press at p
CornersNear(p) == { i \in 0..3 : CornerHit(points, i, p) }
EdgesNear(p) == { i \in 0..3 : EdgeHit(points, i, p) }
Lowest(S) == CHOOSE i \in S : \A j \in S : i <= j

\* C13: a press tests the corners 0..3 and then the edge midpoints 0..3; the first
\* handle within the radius becomes the drag target, so a corner wins over an edge
\* and a lower index over a higher one; a press within no handle starts no drag.
C13_HitPriority ==
    [][HitTestStep =>
          /\ isDragging' =>
                LET p == dragStartPos'
                IN /\ CornersNear(p) # {} =>
                          dragInfo' = [index |-> Lowest(CornersNear(p)), type |-> "corner"]
                   /\ CornersNear(p) = {} =>
                          /\ EdgesNear(p) # {}
                          /\ dragInfo' = [index |-> Lowest(EdgesNear(p)), type |-> "edge"]
          /\ ~isDragging' =>
                /\ UNCHANGED << dragInfo, dragStartPos, initialPoints, points >>
                /\ \E p \in Pointers :
                      OnWrapper(p) /\ CornersNear(p) = {} /\ EdgesNear(p) = {}]_vars

\* a press within the radius of two corners and of an edge midpoint took the corner
\* of the lower index
C13_Witness ==
    /\ isOpen /\ isDragging /\ points = initialPoints /\ activeTool = "crop"
    /\ dragInfo.type = "corner"
    /\ \E j \in 0..3 : j > dragInfo.index /\ CornerHit(points, j, dragStartPos)
    /\ \E i \in 0..3 : EdgeHit(points, i, dragStartPos)


\* C14: a handle is hit when the pointer is less than 25 / zoom screen pixels from
\* it, and the hit target this gives has the same visual size at every zoom level:
\* whenever a press is hit-tested, the radius is the 25 pixels of zoom 1, measured
\* on the screen or measured in the wrapper's own (unscaled) pixels.
C14_HitTargetConstant ==
    [][HitTestStep =>
          \/ HandleRadius = 25 * Q
          \/ HandleRadius * 5 = 25 * Q * zoom]_vars


\* the step that ends a drag while the editor stays open
ReleaseStep == isDragging /\ ~isDragging' /\ isOpen'

\* C15: a mouse-up during a drag returns the controller to Idle (isDragging false,
\* dragInfo null, no pan) and leaves every corner as the last move computed it;
\* the corner set is not put back to the drag-start snapshot.
C15_ReleaseKeepsCorners ==
    [][ReleaseStep =>
          /\ dragInfo' = NoDrag /\ ~isPanning'
          /\ points' = points
          /\ initialPoints' = initialPoints]_vars

\* the top-left corner of the default corner set of a 1000 x 800 image was dragged
\* to (150, 130) and released
C15_Witness ==
    /\ isOpen /\ ~isDragging /\ ~isPanning /\ dragInfo = NoDrag
    /\ initialPoints = DefaultPoints(1000, 800)
    /\ points = [initialPoints EXCEPT ![1] = Pt(150 * Q, 130 * Q)]


\* the controller is Idle: neither dragging nor panning
Idle == isOpen /\ ~isDragging /\ ~isPanning

\* C16: a mouse-move or a mouse-up received while the controller is neither
\* dragging nor panning leaves the corner set, isDragging, dragInfo and isPanning
\* unchanged.
C16_IdleEventsIgnored ==
    [][(Idle /\ ((\E p \in Pointers : handleWindowMouseMove(p)) \/ handleWindowMouseUp))
          => UNCHANGED << points, isDragging, dragInfo, isPanning >>]_vars

\* Idle after a drag of the crop tool: the snapshot, the drag origin and the corner
\* set are all in place for a move handler to act on, and none is held
C16_Witness ==
    /\ Idle /\ ~isProcessing /\ activeTool = "crop" /\ gestures > 0
    /\ points # NULL /\ initialPoints # NULL /\ points # initialPoints
    /\ dragInfo = NoDrag
    /\ \E p \in Pointers : p # dragStartPos /\ OnWrapper(p)


\* C17: panning and corner dragging are mutually exclusive: isPanning and
\* isDragging are never both true.
C17_PanDragExclusive == ~(isPanning /\ isDragging)


DetectionCompletes == isOpen /\ isOpen' /\ Len(detections') < Len(detections)

\* C19: a completing auto-detection assigns the corner set only if the corner set is
\* still null and the current image is the one the detection was started on: it never
\* replaces a corner set that is already there, and what it installs was detected on,
\* or defaulted from, the current image.
C19_DetectionAssignsOnlyNull ==
    [][DetectionCompletes =>
          /\ points # NULL => points' = points
          /\ points' # points =>
                \E k \in 1..Len(detections) : detections[k] = CurrentImage]_vars


\* the visited contours that meet the area threshold and approximate to 4 vertices
ExactQuads ==
    { i \in 1..Len(contoursIn) :
        /\ Len(contoursIn[i].approx) = 4
        /\ contoursIn[i].area * 100 >= 15 * ResizedRows(ScanImage) * ResizedCols(ScanImage) }

\* the exact quad of the largest area, the first visited among equals
LargestQuad ==
    CHOOSE i \in ExactQuads :
        \A j \in ExactQuads :
            \/ contoursIn[j].area < contoursIn[i].area
            \/ contoursIn[j].area = contoursIn[i].area /\ i <= j

\* C20: if at least one contour meeting the area threshold approximates to exactly
\* 4 vertices, the result is built from the largest such contour (the first on
\* ties), whatever the visiting order and whatever contours of other vertex counts
\* are visited, larger ones and earlier ones included.
C20_ExactQuadPreferred ==
    (bestOut.done /\ ExactQuads # {}) =>
        bestOut.value =
            SortCorners(UnscalePoints(ScanImage, contoursIn[LargestQuad].approx))

\* a larger hexagon visited first took the fallback, the quadrilateral visited next
\* displaced it, and the quadrilateral of the same area visited last did not
C20_Witness ==
    LET c == ResizedCols(ScanImage)
        r == ResizedRows(ScanImage)
    IN /\ bestOut.done
       /\ contoursIn = << BigBlobContour(c, r), QuadContour(c, r), ShiftedQuadContour(c, r) >>
       /\ bestOut.value = SortCorners(UnscalePoints(ScanImage, QuadContour(c, r).approx))
       /\ bestOut.value # SortCorners(UnscalePoints(ScanImage, ShiftedQuadContour(c, r).approx))
       /\ BigBlobContour(c, r).area > QuadContour(c, r).area


\* the visited contours whose area is at least 15% of the downscaled image area
Candidates ==
    { i \in 1..Len(contoursIn) :
        contoursIn[i].area * 20 >= 3 * ResizedRows(ScanImage) * ResizedCols(ScanImage) }

\* the visited contours without those that are no candidates, in visiting order
RECURSIVE CandidatesFrom(_)
CandidatesFrom(i) ==
    IF i > Len(contoursIn) THEN << >>
    ELSE IF i \in Candidates THEN << contoursIn[i] >> \o CandidatesFrom(i + 1)
    ELSE CandidatesFrom(i + 1)

\* C21: a contour is a candidate exactly when its area is at least 15% of the
\* downscaled image area, 15% itself included: the detector returns none exactly
\* when no visited contour is a candidate, and the contours that are no candidates
\* have no influence on the result.
C21_AreaThreshold ==
    bestOut.done =>
        /\ bestOut.value = NULL <=> Candidates = {}
        /\ bestOut.value = DetectOnLoad(ScanImage, CandidatesFrom(1), FALSE)

\* a strip of 14.9% of the frame was skipped and a strip of exactly 15% was taken
C21_Witness ==
    LET c == ResizedCols(ScanImage)
        r == ResizedRows(ScanImage)
    IN /\ bestOut.done
       /\ contoursIn = << StripContour(c, r, 149), StripContour(c, r, 150) >>
       /\ StripContour(c, r, 150).area * 100 = 15 * r * c
       /\ bestOut.value = SortCorners(UnscalePoints(ScanImage, StripContour(c, r, 150).approx))


\* the candidate of the largest area
LargestCandidate ==
    CHOOSE i \in Candidates : \A j \in Candidates : contoursIn[j].area <= contoursIn[i].area

\* C23: when no candidate approximates to exactly 4 vertices, the result is the
\* minimum-area bounding rectangle of the candidate of the largest area, whatever
\* the order in which the contours are visited.
C23_FallbackLargest ==
    (bestOut.done /\ Candidates # {} /\ ExactQuads = {}) =>
        bestOut.value =
            SortCorners(UnscalePoints(ScanImage, contoursIn[LargestCandidate].rect))

\* C22: in every reachable state every item's originalUrl is the url it was
\* uploaded with, and handleResetToOriginal sets the item's url back to that
\* url and clears its backupUrl.
C22_OriginalPermanent ==
    /\ [](\A d \in 1..Len(documents) : \A i \in 1..Len(documents[d].items) :
             documents[d].items[i].originalUrl = UploadUrl(documents[d].items[i].id))
    /\ [][\A docId \in BoardDocIds, itemId \in BoardItemIds :
             handleResetToOriginal(docId, itemId) =>
                LET its == documents'[FindIndex(documents', docId) + 1].items
                    it == its[FindIndex(its, itemId) + 1]
                IN it.url = UploadUrl(itemId) /\ it.backupUrl = NULL]_vars

\* an item that was rotated, then taken into a batch, is back at its upload
C22_Witness ==
    /\ batchHistory # NULL
    /\ Len(batchHistory) = Len(documents)
    /\ \E d \in 1..Len(documents) : \E i \in 1..Len(documents[d].items) :
          /\ documents[d].items[i].url = documents[d].items[i].originalUrl
          /\ documents[d].items[i].backupUrl = NULL
          /\ Len(batchHistory[d].items) >= i
          /\ batchHistory[d].items[i].id = documents[d].items[i].id
          /\ batchHistory[d].items[i].url = Rotated(UploadUrl(documents[d].items[i].id))

\* some item of the documents docs is marked processing
AnyProcessing(docs) ==
    \E d \in 1..Len(docs) : \E i \in 1..Len(docs[d].items) : docs[d].items[i].processing

\* C24: handleUndoBatch puts documents back to the snapshot taken when the
\* last batch started, in which no item is marked processing, and clears the
\* snapshot; with no snapshot it changes nothing; a snapshot appears only when
\* a batch starts and is not altered while it is kept.
C24_UndoRestoresSnapshot ==
    /\ [][handleUndoBatch =>
             /\ batchHistory' = NULL
             /\ IF batchHistory # NULL
                THEN documents' = batchHistory /\ ~AnyProcessing(documents')
                ELSE documents' = documents]_vars
    /\ [][batchHistory' # batchHistory =>
             \/ handleUndoBatch
             \/ handleBatchAutoCrop /\ batchHistory' = JsonCopy(documents)]_vars

\* C27: whenever no batch is running (isProcessing is false) no item of the
\* board is marked processing.
C27_NoStuckProcessing == ~boardProcessing => ~AnyProcessing(documents)

\* the items its without the item itemId
Without(its, itemId) == SelectSeq(its, LAMBDA x : x.id # itemId)

C25_RetryBounded ==
    /\ [](cwAttempts <= 6)
    /\ [][OperationRejects =>
             LET e == cwErrors'[Len(cwErrors')]
             IN /\ e.kind = "other" => cwPc' = "thrown"
                /\ (e.kind # "other" /\ cwAttempts < 6) => cwPc' = "wait"
                /\ cwAttempts = 6 => cwPc' = "thrown"
                /\ cwPc' = "thrown" => cwResult' = e]_vars
    /\ [][OperationResolves => cwPc' = "returned"]_vars
    /\ [][(cwPc = "returned" \/ cwPc = "thrown") => cwAttempts' = cwAttempts]_vars
    /\ [](\A k \in 1..Len(cwWaits) : cwWaits[k] * 2^(k - 1) = DelayUnit * 5000 * 5^(k - 1))

\* C30: waitForCV makes at most 101 checks, a timer of 100 ms before each
\* but the first; a check resolves it exactly when window.cv is complete at
\* that check; it rejects only at the 101st check; and it always settles.
C30_WaitTerminates ==
    /\ [](wcChecks <= 101)
    /\ [](wcPc = "check" => wcWaited = 100 * wcChecks)
    /\ [][waitForCVCheck => (wcPc' = "resolved" <=> cvState = "ready")]_vars
    /\ [][waitForCVCheck => (wcPc' = "rejected" <=> (cvState # "ready" /\ wcChecks' = 101))]_vars
    /\ <>(wcPc = "resolved" \/ wcPc = "rejected")

\* the script did not become complete in time and waitForCV rejected at its 101st check
C30_Witness == wcPc = "rejected" /\ cvState # "ready" /\ wcChecks = 101 /\ wcWaited = 10000

PendingSaves(calls, k) == { i \in 1..Len(calls) : calls[i].kind = k }

\* the step in which the call number k of saveCalls settles with an onUpdate
SavedBy(k) ==
    /\ k \in 1..Len(saveCalls)
    /\ saveCalls' = RemoveAt(saveCalls, k)
    /\ lastSave' = "saved"

====
